---- MODULE Spec2Model ----
(***************************************************************************)
(* A model of the terminal stream-processing core of polymarket-agent:     *)
(* the incremental tag extractor, the mouse-scroll decoder, the input      *)
(* scrubber and the scroll window of the TUI panels                        *)
(* (src/polymarket-demo.ts, src/ink-input-test.tsx).                       *)
(*                                                                         *)
(* JavaScript strings are modelled as TLA+ strings; Len, SubSeq and \o     *)
(* act on them one code unit at a time.                                    *)
(***************************************************************************)
EXTENDS Integers, Sequences, FiniteSets, TLC

VARIABLES
    stream,         \* the text the remote generator will deliver, in order
    pos,            \* number of characters of stream delivered so far
    buffer,         \* buffer.value of the stream handler
    tagState,       \* the StreamTagState of a single tracker
    value,          \* a string handed to stripInputArtifacts
    cleaned,        \* stripInputArtifacts(value), once computed
    recleaned,      \* stripInputArtifacts(cleaned), once computed
    scrubPass,      \* how many times the scrubber has run on value
    stdinStream,    \* the characters the terminal will send, in order
    stdinPos,       \* number of characters of stdinStream received so far
    stdinBuffer,    \* the stdin handler's buffer of pending characters
    deltaSum,       \* sum of the deltas the stdin handler has decoded
    input,          \* value of the chat input field
    focusPanel,     \* "chat" or "sidebar"
    scrollOffset,   \* chat scroll offset, in lines from the bottom
    sidebarScrollOffset,
    chatMaxScroll,  \* maxScroll as last reported by the chat panel
    sidebarMaxScroll,
    messages,       \* the chat messages, oldest first
    terminalSize,   \* [columns, rows] of the terminal
    layout,         \* "chat", "sidebar" or "split"
    nextId,         \* number of message ids handed out so far
    winTotal,       \* totalLines of a panel being rendered
    winHeight,      \* the height prop of that panel
    winOffset,      \* the scrollOffset prop of that panel
    window,         \* the window the panel computed, once rendered
    thoughtState,   \* handleSubmit's tracker of the thought tag
    thinkingState,  \* handleSubmit's tracker of the thinking tag
    actionsState,   \* handleSubmit's tracker of the actions tag
    submission,     \* the other locals of the handleSubmit call in flight
    isProcessing,   \* the isProcessing flag of the status line
    logs,           \* the log lines of the sidebar
    extractor,      \* the state of a ResponseStreamExtractor
    extOut,         \* what its pushes have returned since the last reset
    extPrev,        \* what had been pushed when reset() was last called
    args,           \* the arguments of a function being applied on its own
    result,         \* what the function returned, once applied
    lastSeen,       \* lastAutonomyRef.current.value
    memoryStore,    \* the memories of the autonomous room, oldest first
    polls,          \* the pollAutonomyLogs calls in flight
    sidebarView,    \* "positions", "markets" or "logs"
    greetedRef,     \* greetedRef.current
    exited,         \* exit() of useApp was called
    runtimeStopped, \* runtime.stop() was called
    ctrlCPresses    \* Ctrl+C presses since the last message was appended

tagVars == <<stream, pos, buffer, tagState>>
scrubVars == <<value, cleaned, recleaned, scrubPass>>
stdinVars == <<stdinStream, stdinPos, stdinBuffer, deltaSum>>
uiVars == <<input, focusPanel, scrollOffset, sidebarScrollOffset,
            chatMaxScroll, sidebarMaxScroll>>

appVars == <<messages, terminalSize, layout, nextId>>
winVars == <<winTotal, winHeight, winOffset, window>>

respVars == <<thoughtState, thinkingState, actionsState, submission,
              isProcessing, logs>>
extVars == <<extractor, extOut, extPrev>>

callVars == <<args, result>>
pollVars == <<lastSeen, memoryStore, polls>>
viewVars == <<sidebarView>>
exitVars == <<greetedRef, exited, runtimeStopped, ctrlCPresses>>

vars == <<tagVars, scrubVars, stdinVars, uiVars, appVars, winVars, respVars,
          extVars, callVars, pollVars, viewVars, exitVars>>

----------------------------------------------------------------------------
(* Bounds of the model.                                                    *)

\* number of pieces a response stream is assembled from
MaxPieces == 3

\* number of pieces a scrubber input is assembled from
MaxScrubPieces == 3

\* number of pieces a terminal input stream is assembled from
MaxStdinPieces == 2

\* the largest maxScroll a panel reports
MaxReportedScroll == 3

\* largest totalLines, height and |scrollOffset| handed to a panel on its own
MaxWinLines == 6
MaxWinHeight == 5
MaxWinOffset == 8

\* number of chat messages appended in a run
MaxMessages == 2

----------------------------------------------------------------------------
(* String primitives of JavaScript, on 0-based indices as in the source.   *)

Min(a, b) == IF a <= b THEN a ELSE b
Max(a, b) == IF a >= b THEN a ELSE b

\* s.charAt(i): "" beyond the end of s
CharAt(s, i) == IF i < Len(s) THEN SubSeq(s, i + 1, i + 1) ELSE ""

\* s.slice(from) for 0 <= from
SliceFrom(s, from) == SubSeq(s, from + 1, Len(s))

\* s.slice(from, to) for 0 <= from, 0 <= to
Slice(s, from, to) == SubSeq(s, from + 1, Min(to, Len(s)))

\* s.startsWith(t, i)
StartsWithAt(s, t, i) ==
    /\ i + Len(t) <= Len(s)
    /\ SubSeq(s, i + 1, i + Len(t)) = t

\* s.indexOf(t, from): the first index >= from where t occurs, or -1
IndexOfFrom(s, t, from) ==
    LET hits == {i \in from..(Len(s) - Len(t)) : StartsWithAt(s, t, i)}
    IN  IF hits = {} THEN -1 ELSE CHOOSE i \in hits : \A j \in hits : i <= j

\* s.indexOf(t)
IndexOf(s, t) == IndexOfFrom(s, t, 0)

\* s.lastIndexOf(t)
LastIndexOf(s, t) ==
    LET hits == {i \in 0..(Len(s) - Len(t)) : StartsWithAt(s, t, i)}
    IN  IF hits = {} THEN -1 ELSE CHOOSE i \in hits : \A j \in hits : i >= j

----------------------------------------------------------------------------
(* The incremental tag extractor.                                          *)

\* a StreamTagState as handleSubmit creates it
FreshTagState == [opened |-> FALSE, done |-> FALSE, text |-> ""]

OpenTag(tag) == "<" \o tag \o ">"
CloseTag(tag) == "</" \o tag \o ">"

\* the variant of AccumulateTag with state.text = in place of state.text +=
AccumulateTagAssign(buf, tag, st) ==
    LET closeTag == CloseTag(tag)
        closeIdx == IndexOf(buf, closeTag)
    IN  IF closeIdx # -1
        THEN [buffer |-> SliceFrom(buf, closeIdx + Len(closeTag)),
              state  |-> [opened |-> TRUE, done |-> TRUE,
                          text |-> Slice(buf, 0, closeIdx)]]
        ELSE IF Len(buf) > Len(closeTag)
        THEN [buffer |-> SliceFrom(buf, Len(buf) - Len(closeTag)),
              state  |-> [opened |-> TRUE, done |-> FALSE,
                          text |-> Slice(buf, 0, Len(buf) - Len(closeTag))]]
        ELSE [buffer |-> buf,
              state  |-> [opened |-> TRUE, done |-> FALSE, text |-> st.text]]

\* the variant of AccumulateTag that empties the buffer where it should keep
\* the withheld suffix
AccumulateTagDropHeld(buf, tag, st) ==
    LET closeTag == CloseTag(tag)
        closeIdx == IndexOf(buf, closeTag)
    IN  IF closeIdx # -1
        THEN [buffer |-> SliceFrom(buf, closeIdx + Len(closeTag)),
              state  |-> [opened |-> TRUE, done |-> TRUE,
                          text |-> st.text \o Slice(buf, 0, closeIdx)]]
        ELSE IF Len(buf) > Len(closeTag)
        THEN [buffer |-> "",
              state  |-> [opened |-> TRUE, done |-> FALSE,
                          text |-> st.text
                                   \o Slice(buf, 0, Len(buf) - Len(closeTag))]]
        ELSE [buffer |-> buf,
              state  |-> [opened |-> TRUE, done |-> FALSE, text |-> st.text]]

\* the variant of AccumulateTag that withholds nothing while the close
\* marker is absent
AccumulateTagNoHoldback(buf, tag, st) ==
    LET closeTag == CloseTag(tag)
        closeIdx == IndexOf(buf, closeTag)
    IN  IF closeIdx # -1
        THEN [buffer |-> SliceFrom(buf, closeIdx + Len(closeTag)),
              state  |-> [opened |-> TRUE, done |-> TRUE,
                          text |-> st.text \o Slice(buf, 0, closeIdx)]]
        ELSE [buffer |-> "",
              state  |-> [opened |-> TRUE, done |-> FALSE,
                          text |-> st.text \o buf]]

\* the second half of extractTagFromBuffer: the tracker is opened
AccumulateTag(buf, tag, st) ==
    LET closeTag == CloseTag(tag)
        closeIdx == IndexOf(buf, closeTag)
    IN  IF closeIdx # -1
        THEN [buffer |-> SliceFrom(buf, closeIdx + Len(closeTag)),
              state  |-> [opened |-> TRUE, done |-> TRUE,
                          text |-> st.text \o Slice(buf, 0, closeIdx)]]
        ELSE IF Len(buf) > Len(closeTag)
        THEN [buffer |-> SliceFrom(buf, Len(buf) - Len(closeTag)),
              state  |-> [opened |-> TRUE, done |-> FALSE,
                          text |-> st.text
                                   \o Slice(buf, 0, Len(buf) - Len(closeTag))]]
        ELSE [buffer |-> buf,
              state  |-> [opened |-> TRUE, done |-> FALSE, text |-> st.text]]

\* extractTagFromBuffer without its first line, if (state.done) return
extractTagFromBufferNoDoneCheck(buf, tag, st) ==
    IF ~st.opened
    THEN LET openIdx == IndexOf(buf, OpenTag(tag))
         IN  IF openIdx = -1 THEN [buffer |-> buf, state |-> st]
             ELSE AccumulateTag(SliceFrom(buf, openIdx + Len(OpenTag(tag))),
                                tag, st)
    ELSE AccumulateTag(buf, tag, st)

\* extractTagFromBuffer(buffer, tag, state): the new buffer.value and state
extractTagFromBuffer(buf, tag, st) ==
    IF st.done THEN [buffer |-> buf, state |-> st]
    ELSE IF ~st.opened
    THEN LET openIdx == IndexOf(buf, OpenTag(tag))
         IN  IF openIdx = -1 THEN [buffer |-> buf, state |-> st]
             ELSE AccumulateTag(SliceFrom(buf, openIdx + Len(OpenTag(tag))),
                                tag, st)
    ELSE AccumulateTag(buf, tag, st)

----------------------------------------------------------------------------
(* Characters and character classes of the scrubbing patterns.             *)

\* \x1b
ESC == ""
\* \x07
BEL == ""
\* \x01
SOH == ""
\* \x7f
DEL == ""

\* \d
Digits ==
    {"0", "1", "2", "3", "4", "5", "6", "7", "8", "9"}

\* [0-9;?]
CsiParams == Digits \cup {";", "?"}

\* [ -/]
CsiIntermediates ==
    {" ", "!", "\"", "#", "$", "%", "&", "'", "(", ")", "*", "+", ",", "-",
     ".", "/"}

\* [@-~], but the backquote, which no TLA+ string can hold and no input of
\* the model contains
CsiFinals ==
    {"@", "A", "B", "C", "D", "E", "F", "G", "H", "I", "J", "K", "L", "M",
     "N", "O", "P", "Q", "R", "S", "T", "U", "V", "W", "X", "Y", "Z", "[",
     "\\", "]", "^", "_", "a", "b", "c", "d", "e", "f", "g", "h", "i",
     "j", "k", "l", "m", "n", "o", "p", "q", "r", "s", "t", "u", "v", "w",
     "x", "y", "z", "{", "|", "}", "~"}

\* the class without its exception for tab and newline: [\x00-\x1f\x7f]
AllControls == {SOH, BEL, ESC, DEL, "\t", "\n"}

\* the members of [\x00-\x08\x0b\x0c\x0e-\x1f\x7f] among the characters above
StrippedControls == {SOH, BEL, ESC, DEL}

RECURSIVE RunOf(_, _, _)
\* the number of consecutive characters of class cls in s from index i: what
\* a greedy cls* consumes
RunOf(s, i, cls) ==
    IF i < Len(s) /\ CharAt(s, i) \in cls THEN 1 + RunOf(s, i + 1, cls) ELSE 0

\* \d+;\d+;\d+[finals] at index i: the index after the match, or -1
MatchTriple(s, i, finals) ==
    LET d1 == RunOf(s, i, Digits)
        j  == i + d1 + 1
        d2 == RunOf(s, j, Digits)
        k  == j + d2 + 1
        d3 == RunOf(s, k, Digits)
    IN  IF /\ d1 > 0 /\ CharAt(s, i + d1) = ";"
           /\ d2 > 0 /\ CharAt(s, j + d2) = ";"
           /\ d3 > 0 /\ CharAt(s, k + d3) \in finals
        THEN k + d3 + 1 ELSE -1

\* /\x1b\[<\d+;\d+;\d+[mM]/ at index i
MatchSgrMouse(s, i) ==
    IF StartsWithAt(s, ESC \o "[<", i)
    THEN MatchTriple(s, i + 3, {"m", "M"}) ELSE -1

\* /\x1b\[\d+;\d+;\d+M/ at index i
MatchUrxvtMouse(s, i) ==
    IF StartsWithAt(s, ESC \o "[", i)
    THEN MatchTriple(s, i + 2, {"M"}) ELSE -1

\* /\[<?\d+;\d+;\d+[mM]/ at index i
MatchPartialMouse(s, i) ==
    IF ~StartsWithAt(s, "[", i) THEN -1
    ELSE IF CharAt(s, i + 1) = "<"
    THEN MatchTriple(s, i + 2, {"m", "M"})
    ELSE MatchTriple(s, i + 1, {"m", "M"})

\* /\x1b\[M[\s\S]{3}/ at index i
MatchX10Mouse(s, i) ==
    IF StartsWithAt(s, ESC \o "[M", i) /\ i + 6 <= Len(s) THEN i + 6 ELSE -1

\* /\[M[\s\S]{3}/ at index i
MatchPartialX10(s, i) ==
    IF StartsWithAt(s, "[M", i) /\ i + 5 <= Len(s) THEN i + 5 ELSE -1

\* /\x1b\[[0-9;?]*[ -\/]*[@-~]/ at index i
MatchCsi(s, i) ==
    IF ~StartsWithAt(s, ESC \o "[", i) THEN -1
    ELSE LET p == i + 2 + RunOf(s, i + 2, CsiParams)
             q == p + RunOf(s, p, CsiIntermediates)
         IN  IF q < Len(s) /\ CharAt(s, q) \in CsiFinals THEN q + 1 ELSE -1

\* /\x1b\][^\x07]*(\x07|\x1b\\)/ at index i: the greedy [^\x07]* runs to the
\* first BEL, which ends the match; with no BEL it runs to the end of the
\* string and backs up to the last ESC \
MatchOsc(s, i) ==
    IF ~StartsWithAt(s, ESC \o "]", i) THEN -1
    ELSE LET bel == IndexOfFrom(s, BEL, i + 2)
             sts == {j \in (i + 2)..(Len(s) - 2) :
                        StartsWithAt(s, ESC \o "\\", j)}
         IN  IF bel # -1 THEN bel + 1
             ELSE IF sts = {} THEN -1
             ELSE 2 + CHOOSE j \in sts : \A k \in sts : j >= k

\* the index after the match of pattern pat at index i of s, or -1
MatchEnd(pat, s, i) ==
    CASE pat = "crlf"    -> IF StartsWithAt(s, "\r\n", i) THEN i + 2 ELSE -1
      [] pat = "cr"      -> IF StartsWithAt(s, "\r", i) THEN i + 1 ELSE -1
      [] pat = "sgr"     -> MatchSgrMouse(s, i)
      [] pat = "urxvt"   -> MatchUrxvtMouse(s, i)
      [] pat = "partial" -> MatchPartialMouse(s, i)
      [] pat = "x10"     -> MatchX10Mouse(s, i)
      [] pat = "px10"    -> MatchPartialX10(s, i)
      [] pat = "csi"     -> MatchCsi(s, i)
      [] pat = "osc"     -> MatchOsc(s, i)
      [] pat = "esc"     -> IF StartsWithAt(s, ESC, i) THEN i + 1 ELSE -1
      [] pat = "control" -> IF i < Len(s) /\ CharAt(s, i) \in StrippedControls
                            THEN i + 1 ELSE -1

RECURSIVE ReplaceFrom(_, _, _, _)
\* s.slice(i).replace(/pat/g, rep), scanning left to right from index i
ReplaceFrom(pat, s, i, rep) ==
    IF i >= Len(s) THEN ""
    ELSE LET e == MatchEnd(pat, s, i)
         IN  IF e # -1 THEN rep \o ReplaceFrom(pat, s, e, rep)
             ELSE CharAt(s, i) \o ReplaceFrom(pat, s, i + 1, rep)

\* s.replace(/pat/g, rep)
ReplaceAll(pat, s, rep) == ReplaceFrom(pat, s, 0, rep)

\* the last pass of stripInputArtifacts: the C0 controls but tab and newline
StripControls(s) == ReplaceAll("control", s, "")

\* stripInputArtifacts without its first line, the two newline replaces
stripInputArtifactsKeepCr(v) ==
    LET c1 == ReplaceAll("sgr", v, "")
        c2 == ReplaceAll("urxvt", c1, "")
        c3 == ReplaceAll("partial", c2, "")
        c4 == ReplaceAll("x10", c3, "")
        c5 == ReplaceAll("px10", c4, "")
        c6 == ReplaceAll("csi", c5, "")
        c7 == ReplaceAll("osc", c6, "")
        c8 == ReplaceAll("esc", c7, "")
    IN  StripControls(c8)

\* stripInputArtifacts(value)
stripInputArtifacts(v) ==
    LET c0 == ReplaceAll("cr", ReplaceAll("crlf", v, "\n"), "\n")
        c1 == ReplaceAll("sgr", c0, "")
        c2 == ReplaceAll("urxvt", c1, "")
        c3 == ReplaceAll("partial", c2, "")
        c4 == ReplaceAll("x10", c3, "")
        c5 == ReplaceAll("px10", c4, "")
        c6 == ReplaceAll("csi", c5, "")
        c7 == ReplaceAll("osc", c6, "")
        c8 == ReplaceAll("esc", c7, "")
    IN  StripControls(c8)

----------------------------------------------------------------------------
(* The mouse-scroll decoder.                                               *)

\* /\x1b\[<(64|65|96|97);(\d+);(\d+)[mM]/ at index i: the index after the
\* match, or -1
MatchWheel(s, i) ==
    LET d1 == RunOf(s, i + 6, Digits)
        j  == i + 6 + d1 + 1
        d2 == RunOf(s, j, Digits)
    IN  IF /\ StartsWithAt(s, ESC \o "[<", i)
           /\ Slice(s, i + 3, i + 5) \in {"64", "65", "96", "97"}
           /\ CharAt(s, i + 5) = ";"
           /\ d1 > 0 /\ CharAt(s, i + 6 + d1) = ";"
           /\ d2 > 0 /\ CharAt(s, j + d2) \in {"m", "M"}
        THEN j + d2 + 1 ELSE -1

\* a variant of the delta += line that counts every wheel match as wheel up
WheelDeltaAlwaysUp(s, i) == 1

\* match[1] of a wheel match at index i: 64/96 = wheel up, 65/97 = wheel down
WheelDelta(s, i) == IF Slice(s, i + 3, i + 5) \in {"64", "96"} THEN 1 ELSE -1

RECURSIVE ScanWheel(_, _, _, _)
\* the exec loop of consumeMouseScroll from index i: the delta and lastIndex
\* it ends with
ScanWheel(s, i, delta, lastIndex) ==
    IF i >= Len(s) THEN [delta |-> delta, lastIndex |-> lastIndex]
    ELSE LET e == MatchWheel(s, i)
         IN  IF e # -1 THEN ScanWheel(s, e, delta + WheelDelta(s, i), e)
             ELSE ScanWheel(s, i + 1, delta, lastIndex)

\* the variant of consumeMouseScroll that leaves the matched sequences in
\* remaining
consumeMouseScrollKeepMatched(buf) ==
    LET scan    == ScanWheel(buf, 0, 0, 0)
        lastEsc == LastIndexOf(buf, ESC \o "[<")
    IN  [remaining |-> IF lastEsc > 0 THEN SliceFrom(buf, lastEsc) ELSE buf,
         delta     |-> scan.delta]

\* consumeMouseScroll(buffer)
consumeMouseScroll(buf) ==
    LET scan    == ScanWheel(buf, 0, 0, 0)
        rem     == IF scan.lastIndex > 0 THEN SliceFrom(buf, scan.lastIndex)
                   ELSE buf
        lastEsc == LastIndexOf(rem, ESC \o "[<")
    IN  [remaining |-> IF lastEsc > 0 THEN SliceFrom(rem, lastEsc) ELSE rem,
         delta     |-> scan.delta]

\* Math.max(0, Math.min(maxScroll, prev + delta))
ClampScroll(prev, delta, maxScroll) == Max(0, Min(maxScroll, prev + delta))

----------------------------------------------------------------------------
(* Line wrapping and the render lines of the chat panel.                   *)

RECURSIVE Split(_, _)
\* s.split(sep) for a one-character sep
Split(s, sep) ==
    LET idx == IndexOf(s, sep)
    IN  IF idx = -1 THEN <<s>>
        ELSE <<Slice(s, 0, idx)>> \o Split(SliceFrom(s, idx + 1), sep)

\* the hard split of wrapText with an if in place of its while
HardFragmentsOnce(word, maxWidth) ==
    IF Len(word) > maxWidth THEN <<Slice(word, 0, maxWidth)>> ELSE <<>>

RECURSIVE HardFragments(_, _)
\* the maxWidth-sized fragments the while loop of wrapText pushes for word
HardFragments(word, maxWidth) ==
    IF Len(word) > maxWidth
    THEN <<Slice(word, 0, maxWidth)>>
         \o HardFragments(SliceFrom(word, maxWidth), maxWidth)
    ELSE <<>>

\* the while loop of wrapText without its remaining = remaining.slice(...)
HardRemainderWhole(word, maxWidth) == word

RECURSIVE HardRemainder(_, _)
\* what the while loop of wrapText leaves in remaining
HardRemainder(word, maxWidth) ==
    IF Len(word) > maxWidth
    THEN HardRemainder(SliceFrom(word, maxWidth), maxWidth)
    ELSE word

RECURSIVE WrapWordsStrict(_, _, _, _)
\* the loop of wrapText with next.length < maxWidth for its test
WrapWordsStrict(words, k, current, maxWidth) ==
    IF k > Len(words)
    THEN IF Len(current) > 0 THEN <<current>> ELSE <<>>
    ELSE LET word  == words[k]
             next  == IF Len(current) > 0 THEN current \o " " \o word
                      ELSE word
             flush == IF Len(current) > 0 THEN <<current>> ELSE <<>>
         IN  IF Len(next) < maxWidth
             THEN WrapWordsStrict(words, k + 1, next, maxWidth)
             ELSE IF Len(word) > maxWidth
             THEN flush \o HardFragments(word, maxWidth)
                  \o WrapWordsStrict(words, k + 1,
                                     HardRemainder(word, maxWidth), maxWidth)
             ELSE flush \o WrapWordsStrict(words, k + 1, word, maxWidth)

RECURSIVE WrapWords(_, _, _, _)
\* the loop of wrapText over words[k..], entered with current: the lines it
\* pushes, and the last line flushed after the loop
WrapWords(words, k, current, maxWidth) ==
    IF k > Len(words)
    THEN IF Len(current) > 0 THEN <<current>> ELSE <<>>
    ELSE LET word  == words[k]
             next  == IF Len(current) > 0 THEN current \o " " \o word
                      ELSE word
             flush == IF Len(current) > 0 THEN <<current>> ELSE <<>>
         IN  IF Len(next) <= maxWidth
             THEN WrapWords(words, k + 1, next, maxWidth)
             ELSE IF Len(word) > maxWidth
             THEN flush \o HardFragments(word, maxWidth)
                  \o WrapWords(words, k + 1, HardRemainder(word, maxWidth),
                               maxWidth)
             ELSE flush \o WrapWords(words, k + 1, word, maxWidth)

\* the lines wrapText pushes for one paragraph
WrapParagraph(paragraph, maxWidth) ==
    IF Len(paragraph) <= maxWidth THEN <<paragraph>>
    ELSE WrapWords(Split(paragraph, " "), 1, "", maxWidth)

RECURSIVE WrapParagraphs(_, _, _)
\* the lines wrapText pushes for paragraphs[k..]
WrapParagraphs(paragraphs, k, maxWidth) ==
    IF k > Len(paragraphs) THEN <<>>
    ELSE WrapParagraph(paragraphs[k], maxWidth)
         \o WrapParagraphs(paragraphs, k + 1, maxWidth)

\* wrapText returning lines as it is, also when nothing was pushed
wrapTextNoFallback(text, maxWidth) ==
    IF maxWidth <= 0 THEN <<text>>
    ELSE WrapParagraphs(Split(text, "\n"), 1, maxWidth)

\* wrapText(text, maxWidth)
wrapText(text, maxWidth) ==
    IF maxWidth <= 0 THEN <<text>>
    ELSE LET lines == WrapParagraphs(Split(text, "\n"), 1, maxWidth)
         IN  IF Len(lines) > 0 THEN lines ELSE <<"">>

\* JavaScript white space, among the characters of the model
WhiteSpace == {" ", "\t", "\n", "\r"}

RECURSIVE TrimEnd(_)
\* s.trimEnd()
TrimEnd(s) ==
    IF Len(s) > 0 /\ CharAt(s, Len(s) - 1) \in WhiteSpace
    THEN TrimEnd(Slice(s, 0, Len(s) - 1)) ELSE s

RECURSIVE TrimStart(_)
\* s.trimStart()
TrimStart(s) ==
    IF Len(s) > 0 /\ CharAt(s, 0) \in WhiteSpace
    THEN TrimStart(SliceFrom(s, 1)) ELSE s

\* s.trim()
Trim(s) == TrimEnd(TrimStart(s))

\* [A-Za-z]
Letters ==
    {"A", "B", "C", "D", "E", "F", "G", "H", "I", "J", "K", "L", "M", "N",
     "O", "P", "Q", "R", "S", "T", "U", "V", "W", "X", "Y", "Z", "a", "b",
     "c", "d", "e", "f", "g", "h", "i", "j", "k", "l", "m", "n", "o", "p",
     "q", "r", "s", "t", "u", "v", "w", "x", "y", "z"}

\* /\x1b\[[0-9;]*[A-Za-z]/ at index i: the index after the match, or -1
MatchAnsi(s, i) ==
    IF ~StartsWithAt(s, ESC \o "[", i) THEN -1
    ELSE LET p == i + 2 + RunOf(s, i + 2, Digits \cup {";"})
         IN  IF CharAt(s, p) \in Letters THEN p + 1 ELSE -1

RECURSIVE SanitizeFrom(_, _)
\* the three replaces of sanitizeLine, left to right from index i: they match
\* disjoint characters, so one scan does what the three do in turn
SanitizeFrom(s, i) ==
    IF i >= Len(s) THEN ""
    ELSE IF CharAt(s, i) \in {"\r", "\n"}
    THEN " " \o SanitizeFrom(s, i + 1)
    ELSE IF MatchAnsi(s, i) # -1 THEN SanitizeFrom(s, MatchAnsi(s, i))
    ELSE CharAt(s, i) \o SanitizeFrom(s, i + 1)

\* sanitizeLine(text)
sanitizeLine(text) == TrimEnd(SanitizeFrom(text, 0))

\* String(n).padStart(2, "0") for 0 <= n < 100
TwoDigits(n) == IF n < 10 THEN "0" \o ToString(n) ELSE ToString(n)

\* formatTime(timestamp), for a timestamp in minutes of the local day
formatTime(timestamp) ==
    TwoDigits(timestamp \div 60) \o ":" \o TwoDigits(timestamp % 60)

\* /^-+$/ or /^=+$/ on s, for c = "-" or "="
AllOf(s, c) == Len(s) > 0 /\ RunOf(s, 0, {c}) = Len(s)

\* a variant of isCardBorderLine that recognises no line
isCardBorderLineNever(line) == FALSE

\* isCardBorderLine(line)
isCardBorderLine(line) == AllOf(TrimEnd(line), "-")

\* isCardDividerLine(line)
isCardDividerLine(line) == AllOf(TrimEnd(line), "=")

\* a variant of the wrapped.forEach of toRenderLines whose key keeps the index
\* the first line had
KeyedLinesFixedIndex(wrapped, k, prefix, idx, indent) ==
    [j \in 1..(Len(wrapped) - k + 1) |->
        [key  |-> prefix \o ToString(idx),
         text |-> sanitizeLine(indent \o wrapped[k + j - 1])]]

\* the RenderLines of wrapped[k..], keyed prefix:index from index idx on
RECURSIVE KeyedLines(_, _, _, _, _)
KeyedLines(wrapped, k, prefix, idx, indent) ==
    IF k > Len(wrapped) THEN <<>>
    ELSE <<[key  |-> prefix \o ToString(idx),
            text |-> sanitizeLine(indent \o wrapped[k])]>>
         \o KeyedLines(wrapped, k + 1, prefix, idx + 1, indent)

RECURSIVE BodyLines(_, _, _, _, _)
\* the RenderLines of contentLines[k..] of message msg, lineIndex being idx
BodyLines(msg, contentLines, k, idx, maxWidth) ==
    IF k > Len(contentLines) THEN <<>>
    ELSE LET rawLine == contentLines[k]
         IN  IF isCardBorderLine(rawLine) \/ isCardDividerLine(rawLine)
             THEN <<[key  |-> msg.id \o ":card:" \o ToString(idx),
                     text |-> sanitizeLine(rawLine)]>>
                  \o BodyLines(msg, contentLines, k + 1, idx + 1, maxWidth)
             ELSE LET wrapped == wrapText(rawLine, Max(1, maxWidth - 2))
                  IN  KeyedLines(wrapped, 1, msg.id \o ":body:", idx, "  ")
                      \o BodyLines(msg, contentLines, k + 1,
                                   idx + Len(wrapped), maxWidth)

\* the RenderLines toRenderLines pushes for one message
MessageLines(msg, maxWidth) ==
    IF msg.role = "system"
    THEN KeyedLines(wrapText(msg.content, maxWidth), 1,
                    msg.id \o ":system:", 0, "")
    ELSE LET speaker == IF msg.role = "user" THEN "You" ELSE "Eliza"
             header  == speaker \o ": " \o formatTime(msg.timestamp)
         IN  <<[key |-> msg.id \o ":header", text |-> sanitizeLine(header)]>>
             \o BodyLines(msg, Split(msg.content, "\n"), 1, 0, maxWidth)

RECURSIVE RenderLinesFrom(_, _, _)
RenderLinesFrom(msgs, k, maxWidth) ==
    IF k > Len(msgs) THEN <<>>
    ELSE MessageLines(msgs[k], maxWidth) \o RenderLinesFrom(msgs, k + 1, maxWidth)

\* toRenderLines(messages, maxWidth)
toRenderLines(msgs, maxWidth) == RenderLinesFrom(msgs, 1, maxWidth)

----------------------------------------------------------------------------
(* The scroll window of the panels.                                        *)

\* the window arithmetic with the offset counted from the top of the content
PanelWindowFromTop(totalLines, viewportHeight, offset) ==
    LET maxScroll       == Max(0, totalLines - viewportHeight)
        effectiveOffset == Min(offset, maxScroll)
        startIdx        == effectiveOffset
        endIdx          == Min(totalLines, startIdx + viewportHeight)
    IN  [maxScroll |-> maxScroll, effectiveOffset |-> effectiveOffset,
         startIdx |-> startIdx, endIdx |-> endIdx]

\* the window arithmetic with the viewport height left out of startIdx
PanelWindowNoViewport(totalLines, viewportHeight, offset) ==
    LET maxScroll       == Max(0, totalLines - viewportHeight)
        effectiveOffset == Min(offset, maxScroll)
        startIdx        == Max(0, totalLines - effectiveOffset)
        endIdx          == Min(totalLines, startIdx + viewportHeight)
    IN  [maxScroll |-> maxScroll, effectiveOffset |-> effectiveOffset,
         startIdx |-> startIdx, endIdx |-> endIdx]

\* the window arithmetic of ChatPanel and SidebarPanel, on the lines left
\* below the input prompt (ChatPanel) or the header (SidebarPanel)
PanelWindow(totalLines, viewportHeight, offset) ==
    LET maxScroll       == Max(0, totalLines - viewportHeight)
        effectiveOffset == Min(offset, maxScroll)
        startIdx        == Max(0, totalLines - viewportHeight - effectiveOffset)
        endIdx          == Min(totalLines, startIdx + viewportHeight)
    IN  [maxScroll |-> maxScroll, effectiveOffset |-> effectiveOffset,
         startIdx |-> startIdx, endIdx |-> endIdx]

\* ChatPanel: messagesHeight, and the window over renderLines
ChatMessagesHeight(height) == Max(0, height - 1)

ChatPanelWindow(totalLines, height, offset) ==
    PanelWindow(totalLines, ChatMessagesHeight(height), offset)

\* SidebarPanel: bodyHeight, and the window over bodyLines
SidebarBodyHeight(height) == Max(0, height - 1)

SidebarPanelWindow(totalLines, height, offset) ==
    PanelWindow(totalLines, SidebarBodyHeight(height), offset)

\* bodyHeight of PolymarketTuiApp: the rows left under the header and above
\* the reserved bottom row
BodyHeight(rows) ==
    Max(0, rows - (IF rows >= 2 THEN 1 ELSE 0) - (IF rows >= 3 THEN 1 ELSE 0))

\* sidebarWidth, gap and chatWidth of PolymarketTuiApp
ShowChat(lay) == lay \in {"chat", "split"}
ShowSidebar(lay) == lay \in {"sidebar", "split"}
IsWide(columns) == columns >= 110
SidebarWidth(lay, columns) ==
    IF ~ShowSidebar(lay) THEN 0
    ELSE IF ShowChat(lay) /\ IsWide(columns)
    THEN Min(42, Max(28, (columns * 35) \div 100))
    ELSE columns
Gap(lay, columns) ==
    IF ShowChat(lay) /\ ShowSidebar(lay) /\ IsWide(columns) THEN 1 ELSE 0
ChatWidth(lay, columns) ==
    IF ShowChat(lay)
    THEN Max(20, columns - SidebarWidth(lay, columns) - Gap(lay, columns))
    ELSE 0

\* contentWidth of ChatPanel
ChatContentWidth(width) == Max(10, width - 2)

----------------------------------------------------------------------------
(* Response streams: a stream is a concatenation of at most MaxPieces      *)
(* pieces; it is cut into chunks at arbitrary places.                      *)

RECURSIVE Concats(_, _)
\* all concatenations of at most n members of pieces
Concats(pieces, n) ==
    IF n = 0 THEN {""}
    ELSE LET shorter == Concats(pieces, n - 1)
         IN  shorter \cup {s \o p : s \in shorter, p \in pieces}

\* the tag followed by a single tracker
TrackedTag == "text"

TagPieces == {"<text>", "</text>", "A", "B</te", "xt>", "<te", "<actions>"}

TagStreams == Concats(TagPieces, MaxPieces) \cup
              {"<actions>REPLY</actions><text>AB</text>",
               "<text>A</text><text>B</text>"}

\* the chunk the generator delivers next: the next n characters of stream
Chunk(n) == SubSeq(stream, pos + 1, pos + n)

\* the locals of handleSubmit before any message has been submitted
NoSubmission ==
    [active        |-> FALSE,
     assistantId   |-> "",
     thoughtId     |-> "",
     actionsId     |-> "",
     thoughtShown  |-> FALSE,
     actionsShown  |-> FALSE,
     streamedText  |-> "",
     callbackText  |-> "",
     callbacks     |-> 0]

\* new ResponseStreamExtractor(): one buffer, a tracker of the actions tag
\* and a tracker of the text tag
FreshExtractor ==
    [buffer |-> "", actions |-> FreshTagState, text |-> FreshTagState]

\* the variables of the other specifications, at rest
TagIdle == stream = "" /\ pos = 0 /\ buffer = "" /\ tagState = FreshTagState
ScrubIdle == value = "" /\ cleaned = "" /\ recleaned = "" /\ scrubPass = 0
StdinIdle ==
    stdinStream = "" /\ stdinPos = 0 /\ stdinBuffer = "" /\ deltaSum = 0
UiIdle ==
    /\ input = ""
    /\ focusPanel = "chat"
    /\ scrollOffset = 0
    /\ sidebarScrollOffset = 0
    /\ chatMaxScroll = 0
    /\ sidebarMaxScroll = 0
AppIdle ==
    /\ messages = <<>>
    /\ terminalSize = [columns |-> 100, rows |-> 28]
    /\ layout = "chat"
    /\ nextId = 0
WinIdle ==
    /\ winTotal = 0
    /\ winHeight = 0
    /\ winOffset = 0
    /\ window = [status |-> "none"]

RespIdle ==
    /\ thoughtState = FreshTagState
    /\ thinkingState = FreshTagState
    /\ actionsState = FreshTagState
    /\ submission = NoSubmission
    /\ isProcessing = FALSE
    /\ logs = <<>>
ExtIdle ==
    /\ extractor = FreshExtractor
    /\ extOut = ""
    /\ extPrev = [reset |-> FALSE]
CallIdle ==
    /\ args = [fn |-> "none"]
    /\ result = [done |-> FALSE]
PollIdle ==
    /\ lastSeen = 0
    /\ memoryStore = <<>>
    /\ polls = <<>>
ViewIdle == sidebarView = "positions"
ExitIdle ==
    /\ greetedRef = FALSE
    /\ exited = FALSE
    /\ runtimeStopped = FALSE
    /\ ctrlCPresses = 0

TagInit ==
    /\ stream \in TagStreams
    /\ pos = 0
    /\ buffer = ""
    /\ tagState = FreshTagState
    /\ ScrubIdle
    /\ StdinIdle
    /\ UiIdle
    /\ AppIdle
    /\ WinIdle
    /\ PollIdle
    /\ ViewIdle
    /\ ExitIdle
    /\ RespIdle
    /\ ExtIdle
    /\ CallIdle

\* one chunk arrives: buffer.value += chunk; extractTagFromBuffer(...)
PushChunk ==
    \E n \in 1..(Len(stream) - pos) :
        LET r == extractTagFromBuffer(buffer \o Chunk(n), TrackedTag, tagState)
        IN  /\ pos' = pos + n
            /\ buffer' = r.buffer
            /\ tagState' = r.state
            /\ UNCHANGED <<stream, scrubVars, stdinVars, uiVars, appVars,
                           winVars, respVars, extVars, callVars, pollVars,
                           viewVars, exitVars>>

TagNext == PushChunk

SpecTag == TagInit /\ [][TagNext]_vars

----------------------------------------------------------------------------
(* The scrubber applied to a value, and again to its own output (as the    *)
(* stdin handler does to the input field on every wheel event).            *)

ScrubPieces ==
    {ESC, SOH, DEL, BEL, "[<0;1;2m", "[1;", "2;3M", "[M", "ab", "\r", "\n",
     "\t", "]0;", "\\", "[2J"}

ScrubInputs ==
    Concats(ScrubPieces, MaxScrubPieces) \cup {"ab\t\r\n\r" \o SOH \o "c"}

ScrubInit ==
    /\ value \in ScrubInputs
    /\ cleaned = ""
    /\ recleaned = ""
    /\ scrubPass = 0
    /\ TagIdle
    /\ StdinIdle
    /\ UiIdle
    /\ AppIdle
    /\ WinIdle
    /\ PollIdle
    /\ ViewIdle
    /\ ExitIdle
    /\ RespIdle
    /\ ExtIdle
    /\ CallIdle

\* cleaned = stripInputArtifacts(value)
Scrub ==
    /\ scrubPass = 0
    /\ cleaned' = stripInputArtifacts(value)
    /\ scrubPass' = 1
    /\ UNCHANGED <<value, recleaned, tagVars, stdinVars, uiVars, appVars,
                   winVars, respVars, extVars, callVars, pollVars, viewVars,
                   exitVars>>

\* setInput((prev) => stripInputArtifacts(prev)) on an already cleaned value
Rescrub ==
    /\ scrubPass = 1
    /\ recleaned' = stripInputArtifacts(cleaned)
    /\ scrubPass' = 2
    /\ UNCHANGED <<value, cleaned, tagVars, stdinVars, uiVars, appVars,
                   winVars, respVars, extVars, callVars, pollVars, viewVars,
                   exitVars>>

ScrubNext == Scrub \/ Rescrub

SpecScrub == ScrubInit /\ [][ScrubNext]_vars

\* s contains character c
HasChar(s, c) == IndexOf(s, c) # -1

\* s holds no ESC byte and no control byte other than tab and newline
NoControlSequence(s) ==
    \A c \in {ESC, SOH, BEL, DEL, "\r"} : ~HasChar(s, c)

\* s holds a fragment that the escape-less mouse patterns take for the rest
\* of a mouse report
HasMouseLikeFragment(s) ==
    \E i \in 0..(Len(s) - 1) :
        MatchPartialMouse(s, i) # -1 \/ MatchPartialX10(s, i) # -1

\* C3: stripInputArtifacts is idempotent: scrubbing the scrubbed value again
\* changes nothing.
C3_Idempotent ==
    scrubPass = 2 => recleaned = cleaned

\* C7 as stated: every value without ESC and without control bytes other
\* than tab and newline is returned unchanged.
C7_PlainUnchanged ==
    (scrubPass >= 1 /\ NoControlSequence(value)) => cleaned = value

\* C7, amended: every value without ESC, without carriage return, DEL or a
\* C0 control other than tab and newline, and without a mouse-like fragment
\* ([<?digits;digits;digits(m|M), or [M and three more characters) is
\* returned unchanged.
C7_PlainUnchangedAmended ==
    (/\ scrubPass >= 1
     /\ NoControlSequence(value)
     /\ ~HasMouseLikeFragment(value)) => cleaned = value

\* a multi-line text of brackets, digits, semicolons and letters has been
\* scrubbed and came back unchanged
C7_Witness ==
    /\ scrubPass >= 1
    /\ value = "[1;\t\n"
    /\ cleaned = value

----------------------------------------------------------------------------
(* The stdin data handler of PolymarketTuiApp, fed a terminal input stream *)
(* cut into chunks at arbitrary places.                                    *)

StdinPieces ==
    {ESC \o "[<65;10;5M", ESC \o "[<64;1;1m", ESC \o "[<96;2;3M",
     ESC \o "[<97;1;1m", ESC \o "[<0;1;2M", ESC \o "[<", ESC \o "[<6",
     "abcdefg"}

StdinStreams == Concats(StdinPieces, MaxStdinPieces)

StdinInit ==
    /\ stdinStream \in StdinStreams
    /\ stdinPos = 0
    /\ stdinBuffer = ""
    /\ deltaSum = 0
    /\ input = "hi"
    /\ focusPanel \in {"chat", "sidebar"}
    /\ scrollOffset = 0
    /\ sidebarScrollOffset = 0
    /\ chatMaxScroll = MaxReportedScroll
    /\ sidebarMaxScroll = MaxReportedScroll
    /\ TagIdle
    /\ ScrubIdle
    /\ AppIdle
    /\ WinIdle
    /\ PollIdle
    /\ ViewIdle
    /\ ExitIdle
    /\ RespIdle
    /\ ExtIdle
    /\ CallIdle

\* onData(data): one chunk of n characters arrives on stdin
OnData ==
    \E n \in 1..(Len(stdinStream) - stdinPos) :
        LET chunk  == SubSeq(stdinStream, stdinPos + 1, stdinPos + n)
            scroll == consumeMouseScroll(stdinBuffer \o chunk)
        IN  /\ stdinPos' = stdinPos + n
            /\ stdinBuffer' = scroll.remaining
            /\ deltaSum' = deltaSum + scroll.delta
            /\ IF scroll.delta = 0
               THEN UNCHANGED <<input, scrollOffset, sidebarScrollOffset>>
               ELSE /\ input' = stripInputArtifacts(input)
                    /\ IF focusPanel = "chat"
                       THEN /\ scrollOffset' = ClampScroll(scrollOffset,
                                                  scroll.delta, chatMaxScroll)
                            /\ UNCHANGED sidebarScrollOffset
                       ELSE /\ sidebarScrollOffset' =
                                   ClampScroll(sidebarScrollOffset,
                                               scroll.delta, sidebarMaxScroll)
                            /\ UNCHANGED scrollOffset
            /\ UNCHANGED <<stdinStream, focusPanel, chatMaxScroll,
                           sidebarMaxScroll, tagVars, scrubVars, appVars,
                           winVars, respVars, extVars, callVars, pollVars,
                           viewVars, exitVars>>

StdinNext == OnData

SpecStdin == StdinInit /\ [][StdinNext]_vars

\* the characters received on stdin so far
Received == SubSeq(stdinStream, 1, stdinPos)

\* C2: whatever the cut into chunks, the deltas decoded chunk by chunk sum to
\* the delta of consumeMouseScroll on all the characters received: every
\* complete wheel sequence is counted exactly once.
C2_ChunkedEqualsWhole ==
    deltaSum = consumeMouseScroll(Received).delta

\* ESC[<65;10;5M followed by an unfinished sequence has been received, the
\* wheel-down counted once and the unfinished sequence kept pending
C2_Witness ==
    /\ stdinStream = ESC \o "[<65;10;5M" \o ESC \o "[<6"
    /\ stdinPos = Len(stdinStream)
    /\ deltaSum = -1
    /\ stdinBuffer = ESC \o "[<6"

\* C4: after every chunk the pending buffer of the stdin handler holds at
\* most 12 characters.
C4_PendingBounded ==
    Len(stdinBuffer) <= 12

----------------------------------------------------------------------------
(* A panel rendered on its own: any totalLines, height and scrollOffset.   *)

WinInit ==
    /\ \E props \in ((0..MaxWinLines) \X (0..MaxWinHeight)
                          \X ((0 - MaxWinOffset)..MaxWinOffset))
                     \cup {<<50, 11, 0>>, <<50, 11, 100>>} :
           /\ winTotal = props[1]
           /\ winHeight = props[2]
           /\ winOffset = props[3]
    /\ window = [status |-> "none"]
    /\ PollIdle
    /\ ViewIdle
    /\ ExitIdle
    /\ TagIdle
    /\ ScrubIdle
    /\ StdinIdle
    /\ UiIdle
    /\ AppIdle
    /\ RespIdle
    /\ ExtIdle
    /\ CallIdle

\* ChatPanel(props): null when height <= 0, else the window over renderLines
RenderChatPanel ==
    /\ window.status = "none"
    /\ window' = IF winHeight <= 0 THEN [status |-> "null"]
                 ELSE [status |-> "shown",
                       win |-> ChatPanelWindow(winTotal, winHeight, winOffset)]
    /\ UNCHANGED <<winTotal, winHeight, winOffset, tagVars, scrubVars,
                   stdinVars, uiVars, appVars, respVars, extVars, callVars,
                   pollVars, viewVars, exitVars>>

\* SidebarPanel(props): null when height <= 0, else the window over bodyLines
RenderSidebarPanel ==
    /\ window.status = "none"
    /\ window' = IF winHeight <= 0 THEN [status |-> "null"]
                 ELSE [status |-> "shown",
                       win |-> SidebarPanelWindow(winTotal, winHeight, winOffset)]
    /\ UNCHANGED <<winTotal, winHeight, winOffset, tagVars, scrubVars,
                   stdinVars, uiVars, appVars, respVars, extVars, callVars,
                   pollVars, viewVars, exitVars>>

WinNext == RenderChatPanel \/ RenderSidebarPanel

SpecWindow == WinInit /\ [][WinNext]_vars

----------------------------------------------------------------------------
(* The chat panel of PolymarketTuiApp: messages are appended, updated and  *)
(* cleared, the terminal is resized, and the keys scroll the panel.        *)

PanelRoles == {"assistant", "system"}

PanelContents == {"ok", "aaaa bbbb cccc dddd\n----"}

PanelRows == {1, 4, 5}

PanelInit ==
    /\ messages = <<>>
    /\ terminalSize \in [columns : {24}, rows : PanelRows]
    /\ layout = "chat"
    /\ nextId = 0
    /\ input = ""
    /\ focusPanel = "chat"
    /\ scrollOffset = 0
    /\ sidebarScrollOffset = 0
    /\ chatMaxScroll = 0
    /\ sidebarMaxScroll = 0
    /\ TagIdle
    /\ ScrubIdle
    /\ StdinIdle
    /\ WinIdle
    /\ PollIdle
    /\ ViewIdle
    /\ ExitIdle
    /\ RespIdle
    /\ ExtIdle
    /\ CallIdle

\* the props PolymarketTuiApp hands to ChatPanel, and what ChatPanel derives
ChatHeight == BodyHeight(terminalSize.rows)
ChatRenderLines ==
    toRenderLines(messages,
                  ChatContentWidth(ChatWidth(layout, terminalSize.columns)))
ChatTotalLines == Len(ChatRenderLines)
ChatWindow == ChatPanelWindow(ChatTotalLines, ChatHeight, scrollOffset)

\* a variant of updateMessage that builds the matching message anew
updateMessageRebuilt(prev, id, content) ==
    [j \in DOMAIN prev |->
        IF prev[j].id = id
        THEN [id |-> id, role |-> "assistant", content |-> content,
              timestamp |-> 0]
        ELSE prev[j]]

\* the message list after updateMessage(id, content)
updateMessage(prev, id, content) ==
    [j \in DOMAIN prev |->
        IF prev[j].id = id THEN [prev[j] EXCEPT !.content = content]
        ELSE prev[j]]

\* appendMessage(msg)
AppendMessage ==
    /\ nextId < MaxMessages
    /\ \E role \in PanelRoles, content \in PanelContents :
           messages' = Append(messages,
                              [id        |-> "m" \o ToString(nextId),
                               role      |-> role,
                               content   |-> content,
                               timestamp |-> 605])
    /\ nextId' = nextId + 1
    /\ scrollOffset' = 0
    /\ UNCHANGED <<input, focusPanel, sidebarScrollOffset, chatMaxScroll,
                   sidebarMaxScroll, terminalSize, layout, tagVars, scrubVars,
                   stdinVars, winVars, respVars, extVars, callVars, pollVars,
                   viewVars, exitVars>>

\* an id that no message has
AbsentId == "m" \o ToString(MaxMessages)

\* updateMessage(id, content), with the id of a message or with one that no
\* message has
UpdateMessage ==
    /\ \E id \in {messages[k].id : k \in DOMAIN messages} \cup {AbsentId},
          content \in PanelContents :
           messages' = updateMessage(messages, id, content)
    /\ UNCHANGED <<uiVars, terminalSize, layout, nextId, tagVars, scrubVars,
                   stdinVars, winVars, respVars, extVars, callVars, pollVars,
                   viewVars, exitVars>>

\* useInput: page up, page down, up arrow or down arrow while the chat panel
\* has the focus
ChatScrollKey ==
    /\ focusPanel = "chat"
    /\ \E key \in {"pageUp", "pageDown", "upArrow", "downArrow"} :
           scrollOffset' =
               CASE key = "pageUp"    -> Min(chatMaxScroll, scrollOffset + 10)
                 [] key = "pageDown"  -> Max(0, scrollOffset - 10)
                 [] key = "upArrow"   ->
                        ClampScroll(scrollOffset, 1, chatMaxScroll)
                 [] key = "downArrow" ->
                        ClampScroll(scrollOffset, -1, chatMaxScroll)
    /\ UNCHANGED <<input, focusPanel, sidebarScrollOffset, chatMaxScroll,
                   sidebarMaxScroll, appVars, tagVars, scrubVars, stdinVars,
                   winVars, respVars, extVars, callVars, pollVars, viewVars,
                   exitVars>>

\* stdout "resize": setTerminalSize
Resize ==
    /\ \E rows \in PanelRows \ {terminalSize.rows} :
           terminalSize' = [terminalSize EXCEPT !.rows = rows]
    /\ UNCHANGED <<uiVars, messages, layout, nextId, tagVars, scrubVars,
                   stdinVars, winVars, respVars, extVars, callVars, pollVars,
                   viewVars, exitVars>>

\* the effect of ChatPanel: onMaxScrollChange(maxScroll)
ChatPanelEffect ==
    /\ ChatHeight > 0
    /\ chatMaxScroll # ChatWindow.maxScroll
    /\ chatMaxScroll' = ChatWindow.maxScroll
    /\ UNCHANGED <<input, focusPanel, scrollOffset, sidebarScrollOffset,
                   sidebarMaxScroll, appVars, tagVars, scrubVars, stdinVars,
                   winVars, respVars, extVars, callVars, pollVars, viewVars,
                   exitVars>>

\* handleSubmit("/clear")
SubmitClear ==
    /\ messages # <<>>
    /\ input' = ""
    /\ messages' = <<>>
    /\ UNCHANGED <<focusPanel, scrollOffset, sidebarScrollOffset,
                   chatMaxScroll, sidebarMaxScroll, terminalSize, layout,
                   nextId, tagVars, scrubVars, stdinVars, winVars, respVars,
                   extVars, callVars, pollVars, viewVars, exitVars>>

\* useInput: Ctrl+C while there are messages
CtrlC ==
    /\ Len(messages) > 0
    /\ input' = ""
    /\ scrollOffset' = 0
    /\ messages' = <<>>
    /\ UNCHANGED <<focusPanel, sidebarScrollOffset, chatMaxScroll,
                   sidebarMaxScroll, terminalSize, layout, nextId, tagVars,
                   scrubVars, stdinVars, winVars, respVars, extVars,
                   callVars, pollVars, viewVars, exitVars>>

PanelNext ==
    \/ AppendMessage
    \/ UpdateMessage
    \/ ChatScrollKey
    \/ Resize
    \/ ChatPanelEffect
    \/ SubmitClear
    \/ CtrlC

SpecPanel == PanelInit /\ [][PanelNext]_vars

\* the chat panel shows the last min(viewportHeight, totalLines) lines
ChatAtBottom ==
    /\ ChatWindow.endIdx = ChatTotalLines
    /\ ChatWindow.startIdx =
           Max(0, ChatTotalLines - ChatMessagesHeight(ChatHeight))

\* C6: with scroll offset 0 the chat panel shows the last
\* min(viewportHeight, totalLines) lines, and when the content changes at
\* offset 0 (a message appended or updated) the offset stays 0, so the panel
\* still shows the last lines.
C6_StickToBottom ==
    /\ [](scrollOffset = 0 => ChatAtBottom)
    /\ [][(scrollOffset = 0 /\ messages' # messages) => scrollOffset' = 0]_vars

\* content longer than the viewport has been appended and the panel is at
\* offset 0, showing the last line
C6_Witness ==
    /\ Len(messages) = MaxMessages
    /\ scrollOffset = 0
    /\ ChatMessagesHeight(ChatHeight) > 0
    /\ ChatTotalLines > ChatMessagesHeight(ChatHeight)
    /\ ChatWindow.endIdx = ChatTotalLines
    /\ ChatWindow.startIdx > 0

----------------------------------------------------------------------------
(* Reference reading of a whole text: the content between the first open   *)
(* marker and the first close marker after it.                             *)

OpenAt(s, tag) == IndexOf(s, OpenTag(tag))

ContentStart(s, tag) == OpenAt(s, tag) + Len(OpenTag(tag))

CloseAt(s, tag) ==
    IF OpenAt(s, tag) = -1 THEN -1
    ELSE IndexOfFrom(s, CloseTag(tag), ContentStart(s, tag))

TagContent(s, tag) == Slice(s, ContentStart(s, tag), CloseAt(s, tag))

\* the characters delivered so far
Delivered == SubSeq(stream, 1, pos)

\* C1: for a single tracker on its own buffer and every chunking, once the
\* close marker has arrived the tracker is done and its text is exactly the
\* characters between the first open marker and the first close marker
\* after it.
C1_ExactContent ==
    CloseAt(Delivered, TrackedTag) # -1 =>
        /\ tagState.done
        /\ tagState.text = TagContent(Delivered, TrackedTag)

\* the test's stream has been delivered to its end and "AB" extracted
C1_Witness ==
    /\ stream = "<actions>REPLY</actions><text>AB</text>"
    /\ pos = Len(stream)
    /\ tagState.done
    /\ tagState.text = "AB"

----------------------------------------------------------------------------
(* handleSubmit of PolymarketTuiApp for a chat message: the message is     *)
(* handed to messageService.handleMessage, whose onStreamChunk callback    *)
(* runs the thought, thinking and actions trackers on one shared buffer.   *)

\* number of chat messages submitted
MaxSubmits == 1

\* number of tagged sections of a response
MaxRespPieces == 2

\* number of times handleMessage calls the callback for one message
MaxCallbacks == 1

\* the trackers of handleSubmit, in the order onStreamChunk runs them
ResponseTags == <<"thought", "thinking", "actions">>

RespPieces ==
    {"<thought>t</thought>", "<thinking>k</thinking>", "<actions>A</actions>"}

\* the responses of the generator
ResponseStreams ==
    Concats(RespPieces, MaxRespPieces) \cup
    {"<thought>t</thought><thinking>k</thinking><actions>A</actions>", " hi ",
     "\n"}

\* content.text and content.actions of the Content handed to the callback
CallbackTexts == {"", " From action ", "**done**"}

CallbackActions == {<<>>, <<"REPLY", "SEARCH">>}

RECURSIVE Join(_, _)
\* parts.join(sep)
Join(parts, sep) ==
    IF Len(parts) = 0 THEN ""
    ELSE IF Len(parts) = 1 THEN parts[1]
    ELSE parts[1] \o sep \o Join(Tail(parts), sep)

\* the callback's test for an action result; the texts of the model start
\* with none of the five emoji the code also tests for
isActionResult(text) == IndexOf(text, "**") # -1

\* a variant of appendLog that keeps the oldest 200 lines
appendLogKeepOldest(prev, line) ==
    LET next == Append(prev, line)
    IN  IF Len(next) > 200 THEN SubSeq(next, 1, 200) ELSE next

\* appendLog(line), as a function of the log list
appendLog(prev, line) ==
    LET next == Append(prev, line)
    IN  IF Len(next) > 200 THEN SubSeq(next, Len(next) - 199, Len(next))
        ELSE next

\* uuidv4(): the k-th identifier handed out from now
Uuid(k) == "m" \o ToString(nextId + k)

\* showThought(val) and showActions(val), on the pair of the message
\* list and the shown flag: ui = [messages, shown, appended]
ShowTagged(ui, val, id, label) ==
    LET text == Trim(val)
    IN  IF text = "" THEN ui
        ELSE IF ~ui.shown
        THEN [messages |-> Append(ui.messages,
                                  [id        |-> id,
                                   role      |-> "system",
                                   content   |-> label \o text,
                                   timestamp |-> 605]),
              shown    |-> TRUE,
              appended |-> TRUE]
        ELSE [ui EXCEPT !.messages = updateMessage(@, id, label \o text)]

showThought(ui, val) ==
    ShowTagged(ui, val, submission.thoughtId, "Thinking: ")

showActions(ui, val) ==
    ShowTagged(ui, val, submission.actionsId, "Actions: ")

StreamInit ==
    /\ TagIdle
    /\ ScrubIdle
    /\ StdinIdle
    /\ UiIdle
    /\ AppIdle
    /\ WinIdle
    /\ PollIdle
    /\ ViewIdle
    /\ ExitIdle
    /\ RespIdle
    /\ ExtIdle
    /\ CallIdle

\* handleSubmit(value) for a chat message, up to the call of handleMessage
SubmitMessage ==
    /\ ~submission.active
    /\ nextId < 5 * MaxSubmits
    /\ \E v \in {"hi"}, response \in ResponseStreams :
       \E trimmed \in {Trim(stripInputArtifacts(v))} :
               /\ trimmed # ""
               /\ messages' = messages \o
                      <<[id        |-> Uuid(0),
                         role      |-> "user",
                         content   |-> trimmed,
                         timestamp |-> 605],
                        [id        |-> Uuid(1),
                         role      |-> "assistant",
                         content   |-> "(processing...)",
                         timestamp |-> 605]>>
               /\ logs' = appendLog(appendLog(logs, "User: " \o trimmed),
                                    "Processing...")
               /\ stream' = response
    /\ pos' = 0
    /\ input' = ""
    /\ isProcessing' = TRUE
    /\ scrollOffset' = 0
    /\ submission' = [active        |-> TRUE,
                      assistantId   |-> Uuid(1),
                      thoughtId     |-> Uuid(3),
                      actionsId     |-> Uuid(4),
                      thoughtShown  |-> FALSE,
                      actionsShown  |-> FALSE,
                      streamedText  |-> "",
                      callbackText  |-> "",
                      callbacks     |-> 0]
    /\ nextId' = nextId + 5
    /\ thoughtState' = FreshTagState
    /\ thinkingState' = FreshTagState
    /\ actionsState' = FreshTagState
    /\ buffer' = ""
    /\ UNCHANGED <<tagState, focusPanel, sidebarScrollOffset, chatMaxScroll,
                   sidebarMaxScroll, terminalSize, layout, scrubVars,
                   stdinVars, winVars, extVars, callVars, pollVars, viewVars,
                   exitVars>>

\* the three extractTagFromBuffer calls of onStreamChunk on the shared
\* buffer: the buffer afterwards and the three tracker states
RunTrackers(buf) ==
    LET thought == extractTagFromBuffer(buf, "thought", thoughtState)
    IN  LET thinking == extractTagFromBuffer(thought.buffer, "thinking",
                                             thinkingState)
        IN  LET actions == extractTagFromBuffer(thinking.buffer, "actions",
                                                actionsState)
            IN  [buffer   |-> actions.buffer,
                 thought  |-> thought.state,
                 thinking |-> thinking.state,
                 actions  |-> actions.state]

\* the showThought and showActions calls of onStreamChunk
ShowTrackers(t) ==
    LET ui0 == [messages |-> messages,
                shown    |-> submission.thoughtShown,
                appended |-> FALSE]
        ui1 == IF Len(t.thought.text) > 0
               THEN showThought(ui0, t.thought.text) ELSE ui0
        ui2 == IF Len(t.thinking.text) > 0
               THEN showThought(ui1, t.thinking.text) ELSE ui1
        ui3 == [ui2 EXCEPT !.shown = submission.actionsShown]
        ui4 == IF Len(t.actions.text) > 0
               THEN showActions(ui3, t.actions.text) ELSE ui3
    IN  [messages     |-> ui4.messages,
         thoughtShown |-> ui2.shown,
         actionsShown |-> ui4.shown,
         appended     |-> ui4.appended]

\* onStreamChunk(chunk)
OnStreamChunk ==
    /\ submission.active
    /\ \E n \in 1..(Len(stream) - pos) :
       \E t \in {RunTrackers(buffer \o Chunk(n))} :
       \E ui \in {ShowTrackers(t)} :
           LET streamed == submission.streamedText \o Chunk(n)
           IN  /\ pos' = pos + n
               /\ buffer' = t.buffer
               /\ thoughtState' = t.thought
               /\ thinkingState' = t.thinking
               /\ actionsState' = t.actions
               /\ submission' = [submission EXCEPT
                                     !.streamedText = streamed,
                                     !.thoughtShown = ui.thoughtShown,
                                     !.actionsShown = ui.actionsShown]
               /\ messages' = updateMessage(ui.messages,
                                            submission.assistantId, streamed)
               /\ scrollOffset' = IF ui.appended THEN 0 ELSE scrollOffset
    /\ UNCHANGED <<stream, tagState, input, focusPanel, sidebarScrollOffset,
                   chatMaxScroll, sidebarMaxScroll, terminalSize, layout,
                   nextId, isProcessing, logs, scrubVars, stdinVars, winVars,
                   extVars, callVars, pollVars, viewVars, exitVars>>

\* the callback handleMessage is given: async (content) => { ... }
OnCallback ==
    /\ submission.active
    /\ submission.callbacks < MaxCallbacks
    /\ \E contentText \in CallbackTexts, contentActions \in CallbackActions :
       \E text \in {Trim(contentText)} :
           LET shown   == text # ""
               isResult == shown /\ isActionResult(text)
               msgs1   == IF isResult
                          THEN Append(messages, [id        |-> Uuid(0),
                                                 role      |-> "assistant",
                                                 content   |-> text,
                                                 timestamp |-> 605])
                          ELSE messages
               ui      == IF Len(contentActions) > 0
                          THEN showActions([messages |-> msgs1,
                                            shown    |-> submission.actionsShown,
                                            appended |-> isResult],
                                           Join(contentActions, ", "))
                          ELSE [messages |-> msgs1,
                                shown    |-> submission.actionsShown,
                                appended |-> isResult]
           IN  /\ messages' = ui.messages
               /\ scrollOffset' = IF ui.appended THEN 0 ELSE scrollOffset
               /\ nextId' = IF isResult THEN nextId + 1 ELSE nextId
               /\ logs' = IF isResult
                          THEN appendLog(logs, "Action Result: " \o
                                               Slice(text, 0, 100) \o "...")
                          ELSE logs
               /\ submission' =
                      [submission EXCEPT
                           !.callbackText = IF shown /\ ~isResult THEN text
                                            ELSE @,
                           !.actionsShown = ui.shown,
                           !.callbacks = @ + 1]
    /\ UNCHANGED <<tagVars, thoughtState, thinkingState, actionsState, input,
                   focusPanel, sidebarScrollOffset, chatMaxScroll,
                   sidebarMaxScroll, terminalSize, layout, isProcessing,
                   scrubVars, stdinVars, winVars, extVars, callVars,
                   pollVars, viewVars, exitVars>>

\* handleSubmit after handleMessage has returned: the final text
FinishResponse ==
    /\ submission.active
    /\ pos = Len(stream)
    /\ LET finalText == Trim(IF submission.streamedText # ""
                             THEN submission.streamedText
                             ELSE submission.callbackText)
       IN  IF finalText = ""
           THEN /\ messages' = updateMessage(messages, submission.assistantId,
                                             "(no response)")
                /\ logs' = appendLog(logs, "Eliza: (no response)")
           ELSE /\ messages' = updateMessage(messages, submission.assistantId,
                                             finalText)
                /\ logs' = appendLog(logs, "Eliza: " \o finalText)
    /\ isProcessing' = FALSE
    /\ submission' = [submission EXCEPT !.active = FALSE]
    /\ UNCHANGED <<tagVars, thoughtState, thinkingState, actionsState, uiVars,
                   terminalSize, layout, nextId, scrubVars, stdinVars,
                   winVars, extVars, callVars, pollVars, viewVars, exitVars>>

StreamNext ==
    \/ SubmitMessage
    \/ OnStreamChunk
    \/ OnCallback
    \/ FinishResponse

SpecStream == StreamInit /\ [][StreamNext]_vars

\* the tracker handleSubmit keeps for a tag
TrackerOf(tag) ==
    CASE tag = "thought"  -> thoughtState
      [] tag = "thinking" -> thinkingState
      [] tag = "actions"  -> actionsState

\* C8: when a response has been streamed to its end, whatever the chunking
\* and whatever the order of the thought, thinking and actions sections in
\* it, the tracker of each tag that was opened and closed in the response is
\* done and holds exactly the text between that tag's own open and close
\* markers.
C8_TrackersIndependent ==
    (submission.active /\ pos = Len(stream)) =>
        \A k \in DOMAIN ResponseTags :
            LET tag == ResponseTags[k]
            IN  CloseAt(stream, tag) # -1 =>
                    /\ TrackerOf(tag).done
                    /\ TrackerOf(tag).text = TagContent(stream, tag)

----------------------------------------------------------------------------
(* ResponseStreamExtractor, the reply-only wrapper that handleMessage puts *)
(* in front of onStreamChunk: it tracks the actions tag and forwards the   *)
(* content of the text tag only while the action is the pass-through one.  *)

\* number of tagged sections of a response
MaxExtPieces == 2

\* the action whose text is forwarded
PassThroughAction == "REPLY"

ExtPieces ==
    {"<actions>REPLY</actions>", "<actions>SEARCH</actions>",
     "<text>Hi</text>"}

ExtStreams ==
    Concats(ExtPieces, MaxExtPieces) \cup
    {"<actions>GET_BALANCES</actions><text>Checking...</text>",
     "<actions>SEARCH</actions><text>x</text>"}

\* push(chunk) that forwards the text whatever the action is
pushAnyAction(e, chunk) ==
    LET actions == extractTagFromBuffer(e.buffer \o chunk, "actions",
                                        e.actions)
        text    == extractTagFromBuffer(actions.buffer, "text", e.text)
    IN  [extractor |-> [buffer  |-> text.buffer,
                        actions |-> actions.state,
                        text    |-> text.state],
         output    |-> SliceFrom(text.state.text, Len(e.text.text))]

\* push(chunk): the extractor afterwards and the text returned
push(e, chunk) ==
    LET actions == extractTagFromBuffer(e.buffer \o chunk, "actions",
                                        e.actions)
    IN  IF actions.state.done
           /\ Trim(actions.state.text) = PassThroughAction
        THEN LET text == extractTagFromBuffer(actions.buffer, "text", e.text)
             IN  [extractor |-> [buffer  |-> text.buffer,
                                 actions |-> actions.state,
                                 text    |-> text.state],
                  output    |-> SliceFrom(text.state.text, Len(e.text.text))]
        ELSE [extractor |-> [e EXCEPT !.buffer = actions.buffer,
                                      !.actions = actions.state],
              output    |-> ""]

\* reset() that leaves a finished tracker as it is
resetKeepsDone(e) ==
    [buffer  |-> "",
     actions |-> FreshTagState,
     text    |-> IF e.text.done THEN e.text ELSE FreshTagState]

\* reset(): the extractor afterwards
reset(e) == FreshExtractor

ExtInit ==
    /\ stream \in ExtStreams
    /\ pos = 0
    /\ buffer = ""
    /\ tagState = FreshTagState
    /\ ExtIdle
    /\ CallIdle
    /\ ScrubIdle
    /\ StdinIdle
    /\ UiIdle
    /\ AppIdle
    /\ WinIdle
    /\ PollIdle
    /\ ViewIdle
    /\ ExitIdle
    /\ RespIdle

\* extractor.push(chunk) with the next chunk of the response
Push ==
    \E n \in 1..(Len(stream) - pos) :
        LET r == push(extractor, Chunk(n))
        IN  /\ pos' = pos + n
            /\ extractor' = r.extractor
            /\ extOut' = extOut \o r.output
            /\ UNCHANGED <<stream, buffer, tagState, extPrev,
                           scrubVars, stdinVars, uiVars, appVars, winVars,
                           respVars, callVars, pollVars, viewVars, exitVars>>

\* extractor.reset(), after which the chunks of a new response are pushed
Reset ==
    /\ extractor' = reset(extractor)
    /\ extOut' = ""
    /\ extPrev' = [reset    |-> TRUE,
                   action   |-> IF extractor.actions.done
                                THEN extractor.actions.text ELSE "",
                   textSeen |-> CloseAt(Delivered, "text") # -1]
    /\ stream' \in ExtStreams
    /\ pos' = 0
    /\ UNCHANGED <<buffer, tagState, scrubVars, stdinVars, uiVars, appVars,
                   winVars, respVars, callVars, pollVars, viewVars, exitVars>>

ExtNext == Push \/ Reset

SpecExtractor == ExtInit /\ [][ExtNext]_vars

\* C9: once the actions tag of the response being pushed has resolved to a
\* value other than REPLY, the pushes of that response have returned nothing
\* but empty text, whatever the chunking and however much of the text tag
\* has been pushed.
C9_NonReplySuppressed ==
    (/\ CloseAt(Delivered, "actions") # -1
     /\ TagContent(Delivered, "actions") # PassThroughAction)
        => extOut = ""

\* the test's response has been pushed to its end and nothing was returned
C9_Witness ==
    /\ stream = "<actions>GET_BALANCES</actions><text>Checking...</text>"
    /\ pos = Len(stream)
    /\ extractor.actions.done
    /\ extractor.actions.text = "GET_BALANCES"
    /\ extOut = ""

\* C10: reset() puts both trackers back in WAITING_OPEN with empty text,
\* whatever state they were in, and the response pushed after it is
\* extracted as by a fresh extractor: once its actions tag has resolved to
\* REPLY and its text tag has closed after that, the pushes since the reset
\* have returned exactly the content of its text tag, and nothing of the
\* response pushed before the reset.
C10_ResetStartsAfresh ==
    extPrev.reset =>
        /\ pos = 0 => extractor = FreshExtractor
        /\ (/\ CloseAt(Delivered, "actions") # -1
            /\ TagContent(Delivered, "actions") = PassThroughAction
            /\ CloseAt(Delivered, "text") # -1
            /\ CloseAt(Delivered, "actions") < OpenAt(Delivered, "text"))
               => extOut = TagContent(Delivered, "text")

\* SEARCH and its text "x" were pushed, then reset(), then the REPLY
\* response, whose pushes returned "Hi"
C10_Witness ==
    /\ extPrev.reset
    /\ extPrev.action = "SEARCH"
    /\ extPrev.textSeen
    /\ stream = "<actions>REPLY</actions><text>Hi</text>"
    /\ pos = Len(stream)
    /\ extOut = "Hi"

\* the content of the assistant message of the last submission
AssistantContent ==
    LET k == CHOOSE j \in DOMAIN messages :
                 messages[j].id = submission.assistantId
    IN  messages[k].content

\* handleMessage has returned and handleSubmit has set the final text
ResponseFinished == ~submission.active /\ submission.assistantId # ""

\* C11: when handleMessage has completed, the assistant message holds the
\* streamed text whenever the stream produced non-blank text, the callback
\* text when nothing was streamed, and "(no response)" only when neither
\* the stream nor the callback produced non-blank text.
C11_FinalContent ==
    ResponseFinished =>
        /\ Trim(submission.streamedText) # "" =>
               AssistantContent = Trim(submission.streamedText)
        /\ (submission.streamedText = "" /\ submission.callbackText # "") =>
               AssistantContent = submission.callbackText
        /\ AssistantContent = "(no response)" =>
               /\ Trim(submission.streamedText) = ""
               /\ submission.callbackText = ""

----------------------------------------------------------------------------
(* wrapText applied on its own to a text and a width.                      *)

\* number of pieces a text is made of
MaxWrapPieces == 4

\* largest width tried
MaxWrapWidth == 3

WrapPieces == {"a", "bcd", " ", "\n"}

WrapTexts == Concats(WrapPieces, MaxWrapPieces) \cup {"a b c"}

WrapWidths == (-1)..MaxWrapWidth

WrapInit ==
    /\ \E text \in WrapTexts, maxWidth \in WrapWidths :
           args = [fn |-> "wrapText", text |-> text, maxWidth |-> maxWidth]
    /\ result = [done |-> FALSE]
    /\ TagIdle
    /\ ScrubIdle
    /\ StdinIdle
    /\ UiIdle
    /\ AppIdle
    /\ WinIdle
    /\ PollIdle
    /\ ViewIdle
    /\ ExitIdle
    /\ RespIdle
    /\ ExtIdle

\* lines = wrapText(text, maxWidth)
Wrap ==
    /\ ~result.done
    /\ result' = [done |-> TRUE, out |-> wrapText(args.text, args.maxWidth)]
    /\ UNCHANGED <<args, tagVars, scrubVars, stdinVars, uiVars, appVars,
                   winVars, respVars, extVars, pollVars, viewVars, exitVars>>

WrapNext == Wrap

SpecWrap == WrapInit /\ [][WrapNext]_vars

\* C12: for every text and every maxWidth > 0, every line wrapText returns
\* has at most maxWidth characters.
C12_LinesFit ==
    (result.done /\ args.maxWidth > 0) =>
        \A k \in DOMAIN result.out : Len(result.out[k]) <= args.maxWidth

\* a word longer than the width has been split and the rest packed
C12_Witness ==
    /\ result.done
    /\ args.text = "bcd a"
    /\ args.maxWidth = 2
    /\ result.out = <<"bc", "d", "a">>

\* C13: wrapText always returns at least one line; for the empty text and a
\* positive width it returns the single line ""; for a width <= 0 it returns
\* the text as a single line, newlines included.
C13_NeverEmpty ==
    result.done =>
        /\ Len(result.out) >= 1
        /\ (args.text = "" /\ args.maxWidth > 0) => result.out = <<"">>
        /\ args.maxWidth <= 0 => result.out = <<args.text>>

\* a paragraph of spaces wider than the width pushes no line, and the single
\* line "" is returned
C13_Witness ==
    /\ result.done
    /\ args.text = "   "
    /\ args.maxWidth = 2
    /\ result.out = <<"">>

RECURSIVE Flatten(_)
\* the lines one after the other
Flatten(lines) ==
    IF Len(lines) = 0 THEN "" ELSE Head(lines) \o Flatten(Tail(lines))

RECURSIVE Without(_, _)
\* s without the characters in chars
Without(s, chars) ==
    IF Len(s) = 0 THEN ""
    ELSE (IF CharAt(s, 0) \in chars THEN "" ELSE CharAt(s, 0))
         \o Without(SliceFrom(s, 1), chars)

\* s has no space and no newline
IsSingleWord(s) == IndexOf(s, " ") = -1 /\ IndexOf(s, "\n") = -1

\* C14: for maxWidth > 0, a single word longer than maxWidth comes back as
\* fragments of exactly maxWidth characters, the last one of 1 to maxWidth
\* characters, whose concatenation is the word; and for any text the
\* non-space characters of the lines, in order, are the characters of the
\* text that are neither spaces nor newlines.
C14_HardSplitKeepsCharacters ==
    (result.done /\ args.maxWidth > 0) =>
        /\ (IsSingleWord(args.text) /\ Len(args.text) > args.maxWidth) =>
               /\ \A k \in 1..(Len(result.out) - 1) :
                      Len(result.out[k]) = args.maxWidth
               /\ Len(result.out[Len(result.out)]) \in 1..args.maxWidth
               /\ Flatten(result.out) = args.text
        /\ Without(Flatten(result.out), {" "}) =
               Without(args.text, {" ", "\n"})

\* a word of four characters has been split at width 3
C14_Witness ==
    /\ result.done
    /\ args.text = "abcd"
    /\ args.maxWidth = 3
    /\ result.out = <<"abc", "d">>

\* C15: for maxWidth > 0 every newline-delimited paragraph of the text,
\* empty paragraphs and paragraphs of spaces included, contributes at least
\* one line of its own to the output, so the output has at least as many
\* lines as the text has paragraphs.
C15_ForcedBreaksKept ==
    (result.done /\ args.maxWidth > 0) =>
        LET paragraphs == Split(args.text, "\n")
        IN  /\ \A k \in DOMAIN paragraphs :
                   Len(WrapParagraph(paragraphs[k], args.maxWidth)) >= 1
            /\ Len(result.out) >= Len(paragraphs)

\* the window a panel of the rendered size shows at another offset
WindowAt(offset) == PanelWindow(winTotal, Max(0, winHeight - 1), offset)

\* C16: up to maxScroll a larger scroll offset gives a strictly smaller
\* start index, and every offset from maxScroll on gives the window of
\* maxScroll, which starts at index 0.
C16_ScrollMonotone ==
    (window.status = "shown" /\ winOffset >= 0) =>
        LET w == window.win
        IN  /\ winOffset <= w.maxScroll =>
                   \A a \in 0..(winOffset - 1) :
                       w.startIdx < WindowAt(a).startIdx
            /\ winOffset >= w.maxScroll =>
                   /\ w.startIdx = 0
                   /\ w.startIdx = WindowAt(w.maxScroll).startIdx
                   /\ w.endIdx = WindowAt(w.maxScroll).endIdx

\* six lines in a viewport of two, scrolled up by two of the four possible
C16_Witness ==
    /\ window.status = "shown"
    /\ winTotal = 6
    /\ winHeight = 3
    /\ winOffset = 2
    /\ window.win.maxScroll = 4
    /\ window.win.startIdx = 2

\* C17: whatever keys, appends, updates, /clear commands and resizes have
\* happened, the stored chat scroll offset is an integer from 0 to the
\* maxScroll of the chat panel's current content and viewport height, and
\* the stored sidebar offset is not negative.
C17_StoredOffsetInRange ==
    /\ scrollOffset \in 0..ChatWindow.maxScroll
    /\ sidebarScrollOffset >= 0

\* the buffer as extractTagFromBuffer finds it in a step: the old buffer
\* followed by the chunk delivered in the step
BufferWithChunk == buffer \o SubSeq(stream, pos + 1, pos')

\* C18: a push on a tracker that is DONE, or that is WAITING_OPEN while the
\* buffer holds no open marker, changes neither the tracker state nor the
\* buffer the call was given; so a DONE tracker keeps its text whatever
\* arrives afterwards.
C18_NoOpWhenDoneOrWaiting ==
    [][(pos' > pos /\
        (\/ tagState.done
         \/ (/\ ~tagState.opened
             /\ IndexOf(BufferWithChunk, OpenTag(TrackedTag)) = -1)))
       => (tagState' = tagState /\ buffer' = BufferWithChunk)]_vars

\* the tracker is done with "A" and the second pair of markers, which
\* arrived after the close marker, is still in the buffer
C18_Witness ==
    /\ stream = "<text>A</text><text>B</text>"
    /\ pos = Len(stream)
    /\ tagState = [opened |-> TRUE, done |-> TRUE, text |-> "A"]
    /\ buffer = "<text>B</text>"

\* the steps that change the message sequence
Appended ==
    /\ Len(messages') = Len(messages) + 1
    /\ SubSeq(messages', 1, Len(messages)) = messages

ContentUpdated ==
    /\ DOMAIN messages' = DOMAIN messages
    /\ \A j \in DOMAIN messages :
           /\ messages'[j].id = messages[j].id
           /\ messages'[j].role = messages[j].role
           /\ messages'[j].timestamp = messages[j].timestamp
    /\ \E id \in {messages[k].id : k \in DOMAIN messages} :
           \A j \in DOMAIN messages :
               messages[j].id # id => messages'[j] = messages[j]

\* C19: the message sequence is append-only except for clear: a step that
\* changes it appends exactly one message and changes no existing one, or
\* changes only the content of the messages of one id and keeps the length,
\* the order and every id, role and timestamp, or empties the whole
\* sequence; updateMessage appends and removes nothing, and changes nothing
\* when no message has the id; only /clear and Ctrl+C remove messages.
C19_AppendOnlyExceptClear ==
    /\ [][\/ messages' = messages
          \/ Appended
          \/ ContentUpdated
          \/ messages' = <<>>]_vars
    /\ [][AppendMessage => Appended]_vars
    /\ [][UpdateMessage => (messages' = messages \/ ContentUpdated)]_vars
    /\ [][Len(messages') < Len(messages)
            => ((SubmitClear \/ CtrlC) /\ messages' = <<>>)]_vars

\* a message appended after the sequence was emptied
C19_Witness ==
    /\ nextId = MaxMessages
    /\ Len(messages) = 1
    /\ messages[1].id = "m" \o ToString(MaxMessages - 1)
    /\ chatMaxScroll > 0

----------------------------------------------------------------------------
(* toRenderLines applied on its own to a message list and a width, and      *)
(* applied again at the next render.                                        *)

\* number of messages in a list
MaxRenderMessages == 2

\* largest width tried
MaxRenderWidth == 4

RenderIds == {"m0", "m1", "m0:body:0"}

RenderRoles == {"user", "assistant", "system"}

RenderContents == {"ab cd", "----\nabc d\n====", "a\n\n-- "}

RenderMessages ==
    [id : RenderIds, role : RenderRoles, content : RenderContents,
     timestamp : {605}]

\* the message lists of at most MaxRenderMessages messages with pairwise
\* distinct ids
RenderLists ==
    {l \in UNION {[1..n -> RenderMessages] : n \in 0..MaxRenderMessages} :
        \A i, j \in DOMAIN l : i # j => l[i].id # l[j].id}

RenderWidths == 0..MaxRenderWidth

RenderInit ==
    /\ \E msgs \in RenderLists, maxWidth \in RenderWidths :
           args = [fn |-> "toRenderLines", msgs |-> msgs,
                   maxWidth |-> maxWidth]
    /\ result = [done |-> FALSE]
    /\ TagIdle
    /\ ScrubIdle
    /\ StdinIdle
    /\ UiIdle
    /\ AppIdle
    /\ WinIdle
    /\ PollIdle
    /\ ViewIdle
    /\ ExitIdle
    /\ RespIdle
    /\ ExtIdle

\* ChatPanel: lines = toRenderLines(messages, contentWidth), first render
Render ==
    /\ ~result.done
    /\ result' = [done |-> TRUE, renders |-> 1,
                  out |-> toRenderLines(args.msgs, args.maxWidth)]
    /\ UNCHANGED <<args, tagVars, scrubVars, stdinVars, uiVars, appVars,
                   winVars, respVars, extVars, pollVars, viewVars, exitVars>>

\* ChatPanel: the same call at a later render of the same messages and width
ReRender ==
    /\ result.done
    /\ result.renders = 1
    /\ result' = [done |-> TRUE, renders |-> 2, out |-> result.out,
                  again |-> toRenderLines(args.msgs, args.maxWidth)]
    /\ UNCHANGED <<args, tagVars, scrubVars, stdinVars, uiVars, appVars,
                   winVars, respVars, extVars, pollVars, viewVars, exitVars>>

RenderNext == Render \/ ReRender

SpecRender == RenderInit /\ [][RenderNext]_vars

\* the keys of a list of RenderLines, in order
KeysOf(lines) == [k \in DOMAIN lines |-> lines[k].key]

\* C20: for every message list with pairwise distinct ids and every
\* maxWidth, the keys of the RenderLines toRenderLines returns are pairwise
\* distinct, and a second call with the same messages and width returns the
\* same keys in the same order.
C20_KeysDistinctAndStable ==
    result.done =>
        /\ \A i, j \in DOMAIN result.out :
               i # j => result.out[i].key # result.out[j].key
        /\ result.renders = 2 => KeysOf(result.again) = KeysOf(result.out)

\* two messages, one with the id the other's key starts with, rendered twice
\* with wrapped body lines, card lines and system lines
C20_Witness ==
    /\ result.done
    /\ result.renders = 2
    /\ Len(args.msgs) = 2
    /\ args.msgs[1] = [id |-> "m0", role |-> "user",
                       content |-> "----\nabc d\n====", timestamp |-> 605]
    /\ args.msgs[2] = [id |-> "m0:body:0", role |-> "system",
                       content |-> "ab cd", timestamp |-> 605]
    /\ args.maxWidth = 4
    /\ KeysOf(result.out) =
           <<"m0:header", "m0:card:0", "m0:body:1", "m0:body:2",
             "m0:body:3", "m0:card:4", "m0:body:0:system:0",
             "m0:body:0:system:1">>

RECURSIVE FlatLines(_)
\* the sequences of a sequence one after the other
FlatLines(ss) ==
    IF Len(ss) = 0 THEN <<>> ELSE Head(ss) \o FlatLines(Tail(ss))

\* the texts of a list of RenderLines, in order
TextsOf(lines) == [k \in DOMAIN lines |-> lines[k].text]

\* the body texts of a message as the claim words them: a segment made
\* solely of "-" or solely of "=" as it is, any other segment wrapped to
\* maxWidth - 2 with two spaces before each line
ClaimedBodyTexts(content, maxWidth) ==
    LET segs == Split(content, "\n")
    IN  FlatLines([k \in DOMAIN segs |->
            IF AllOf(segs[k], "-") \/ AllOf(segs[k], "=")
            THEN <<segs[k]>>
            ELSE LET w == wrapText(segs[k], maxWidth - 2)
                 IN  [j \in DOMAIN w |-> "  " \o w[j]]])

\* the body texts of a message with the trailing white space and the floor
\* of the width taken into account
AmendedBodyTexts(content, maxWidth) ==
    LET segs == Split(content, "\n")
    IN  FlatLines([k \in DOMAIN segs |->
            IF AllOf(TrimEnd(segs[k]), "-") \/ AllOf(TrimEnd(segs[k]), "=")
            THEN <<TrimEnd(segs[k])>>
            ELSE LET w == wrapText(segs[k], Max(1, maxWidth - 2))
                 IN  [j \in DOMAIN w |-> sanitizeLine("  " \o w[j])]])

\* the texts of all lines, the body texts of the user and assistant messages
\* being those of BodyTexts
TextsWith(BodyTexts(_, _)) ==
    FlatLines([k \in DOMAIN args.msgs |->
        LET msg == args.msgs[k]
            own == TextsOf(MessageLines(msg, args.maxWidth))
        IN  IF msg.role = "system" THEN own
            ELSE <<own[1]>> \o BodyTexts(msg.content, args.maxWidth)])

\* C21 as stated: in a user or assistant message every segment made solely
\* of "-" or solely of "=" is emitted as one line, the segment itself,
\* unindented and unwrapped, and every other segment is wrapped to
\* maxWidth - 2 with each line prefixed with two spaces.
C21_CardLinesVerbatim ==
    result.done => TextsOf(result.out) = TextsWith(ClaimedBodyTexts)

\* C21 amended: every segment that without its trailing white space is made
\* solely of "-" or solely of "=" is emitted as one line, the segment without
\* its trailing white space, unindented and unwrapped; every other segment
\* is wrapped to max(1, maxWidth - 2) and each line is emitted as two spaces
\* and the line, put through sanitizeLine (no ANSI colour sequence, a space
\* for each carriage return, no trailing white space).
C21_CardLinesVerbatimAmended ==
    result.done => TextsOf(result.out) = TextsWith(AmendedBodyTexts)

\* a rule longer than the width is emitted whole between indented lines
C21_Witness ==
    /\ result.done
    /\ Len(args.msgs) = 1
    /\ args.msgs[1].role = "assistant"
    /\ args.msgs[1].content = "----\nabc d\n===="
    /\ args.maxWidth = 3
    /\ TextsOf(result.out) =
           <<"Eliza: 10:05", "----", "  a", "  b", "  c", "  d", "====">>

RECURSIVE NewlinesNormalized(_)
\* s with every \r\n and every other \r read as \n
NewlinesNormalized(s) ==
    IF Len(s) = 0 THEN ""
    ELSE IF Len(s) >= 2 /\ SubSeq(s, 1, 2) = "\r\n"
    THEN "\n" \o NewlinesNormalized(SubSeq(s, 3, Len(s)))
    ELSE IF SubSeq(s, 1, 1) = "\r"
    THEN "\n" \o NewlinesNormalized(SubSeq(s, 2, Len(s)))
    ELSE SubSeq(s, 1, 1) \o NewlinesNormalized(SubSeq(s, 2, Len(s)))

RECURSIVE IsSubsequence(_, _)
\* the characters of a are characters of b, in the order of b
IsSubsequence(a, b) ==
    IF Len(a) = 0 THEN TRUE
    ELSE IF Len(b) = 0 THEN FALSE
    ELSE IF SubSeq(a, 1, 1) = SubSeq(b, 1, 1)
    THEN IsSubsequence(SubSeq(a, 2, Len(a)), SubSeq(b, 2, Len(b)))
    ELSE IsSubsequence(a, SubSeq(b, 2, Len(b)))

----------------------------------------------------------------------------
(* lib.ts: PrivateKeySchema and loadEnvConfig.                              *)

\* a string or null / undefined
Undefined == [set |-> FALSE, v |-> ""]
Str(s) == [set |-> TRUE, v |-> s]

\* a ?? b
Coalesce(a, b) == IF a.set THEN a ELSE b

\* [0-9a-fA-F]
HexDigits ==
    Digits \cup {"a", "b", "c", "d", "e", "f", "A", "B", "C", "D", "E", "F"}

\* PrivateKeySchema without the piped pattern: the transform alone
PrivateKeySchemaNoPattern(v) ==
    [ok |-> TRUE, out |-> IF StartsWithAt(v, "0x", 0) THEN v ELSE "0x" \o v]

\* PrivateKeySchema with a pattern that takes any number of digits
PrivateKeySchemaAnyLength(v) ==
    LET w == IF StartsWithAt(v, "0x", 0) THEN v ELSE "0x" \o v
    IN  IF RunOf(w, 2, HexDigits) = Len(w) - 2
        THEN [ok |-> TRUE, out |-> w] ELSE [ok |-> FALSE, out |-> ""]

\* PrivateKeySchema.parse(v) for a string v: the transform, then
\* /^0x[0-9a-fA-F]{64}$/; ok is FALSE when parse throws
PrivateKeySchema(v) ==
    LET w == IF StartsWithAt(v, "0x", 0) THEN v ELSE "0x" \o v
    IN  IF /\ StartsWithAt(w, "0x", 0)
           /\ RunOf(w, 2, HexDigits) = 64
           /\ Len(w) = 66
        THEN [ok |-> TRUE, out |-> w] ELSE [ok |-> FALSE, out |-> ""]

\* largest number of digits in a key handed to PrivateKeySchema
MaxKeyDigits == 65

RECURSIVE Repeat(_, _)
\* c.repeat(n)
Repeat(c, n) == IF n <= 0 THEN "" ELSE c \o Repeat(c, n - 1)

KeyTexts ==
    {prefix \o Repeat(c, n) \o tail :
        prefix \in {"", "0x", "0X", "0x0x"}, c \in {"1", "b", "E"},
        n \in 0..MaxKeyDigits, tail \in {"", "7", "g", "\n"}}

KeyInit ==
    /\ \E text \in KeyTexts : args = [fn |-> "PrivateKeySchema", text |-> text]
    /\ result = [done |-> FALSE]
    /\ TagIdle
    /\ ScrubIdle
    /\ StdinIdle
    /\ UiIdle
    /\ AppIdle
    /\ WinIdle
    /\ PollIdle
    /\ ViewIdle
    /\ ExitIdle
    /\ RespIdle
    /\ ExtIdle

\* parsed = PrivateKeySchema.parse(key)
ParseKey ==
    /\ ~result.done
    /\ result' = [done |-> TRUE, parses |-> 1,
                  parsed |-> PrivateKeySchema(args.text)]
    /\ UNCHANGED <<args, tagVars, scrubVars, stdinVars, uiVars, appVars,
                   winVars, respVars, extVars, pollVars, viewVars, exitVars>>

\* PrivateKeySchema.parse(parsed)
ParseParsed ==
    /\ result.done
    /\ result.parses = 1
    /\ result.parsed.ok
    /\ result' = [done |-> TRUE, parses |-> 2, parsed |-> result.parsed,
                  again |-> PrivateKeySchema(result.parsed.out)]
    /\ UNCHANGED <<args, tagVars, scrubVars, stdinVars, uiVars, appVars,
                   winVars, respVars, extVars, pollVars, viewVars, exitVars>>

KeyNext == ParseKey \/ ParseParsed

SpecKey == KeyInit /\ [][KeyNext]_vars

\* s is made of exactly 64 hexadecimal digits
IsKeyBody(s) ==
    Len(s) = 64 /\ \A i \in 0..63 : CharAt(s, i) \in HexDigits

\* C26: PrivateKeySchema.parse accepts exactly the strings of 64 hexadecimal
\* digits with or without a leading 0x, returns the 0x-prefixed form, throws
\* for every other string, and parsing what it returned returns the same.
C26_KeyAcceptedExactly ==
    result.done =>
        /\ result.parsed.ok <=>
               \/ IsKeyBody(args.text)
               \/ (/\ Len(args.text) = 66
                   /\ SubSeq(args.text, 1, 2) = "0x"
                   /\ IsKeyBody(SubSeq(args.text, 3, 66)))
        /\ (result.parsed.ok /\ IsKeyBody(args.text)) =>
               result.parsed.out = "0x" \o args.text
        /\ (result.parsed.ok /\ ~IsKeyBody(args.text)) =>
               result.parsed.out = args.text
        /\ result.parses = 2 => result.again = result.parsed

\* a key without prefix has been accepted, prefixed and parsed again
C26_Witness ==
    /\ result.done
    /\ result.parses = 2
    /\ args.text = Repeat("E", 63) \o "7"
    /\ result.parsed = [ok |-> TRUE, out |-> "0x" \o args.text]
    /\ result.again = result.parsed

----------------------------------------------------------------------------
(* loadEnvConfig on an environment that is set variable by variable.        *)

\* number of environment variables that are set
MaxEnvSet == 3

UpperCase == "ABCDEFGHIJKLMNOPQRSTUVWXYZ"
LowerCase == "abcdefghijklmnopqrstuvwxyz"

RECURSIVE ToLowerCase(_)
\* s.toLowerCase(), on the letters A-Z
ToLowerCase(s) ==
    IF Len(s) = 0 THEN ""
    ELSE LET c == CharAt(s, 0)
             k == IndexOf(UpperCase, c)
         IN  (IF k = -1 THEN c ELSE CharAt(LowerCase, k))
             \o ToLowerCase(SliceFrom(s, 1))

\* a variant of normalizeEnvValue that does not trim
normalizeEnvValueUntrimmed(x) ==
    IF ~x.set THEN Undefined
    ELSE IF Len(x.v) = 0 THEN Undefined
    ELSE IF ToLowerCase(x.v) \in {"null", "undefined"} THEN Undefined
    ELSE x

\* normalizeEnvValue(value): a string, or null
normalizeEnvValue(x) ==
    IF ~x.set THEN Undefined
    ELSE LET trimmed == Trim(x.v)
         IN  IF Len(trimmed) = 0 THEN Undefined
             ELSE IF ToLowerCase(trimmed) \in {"null", "undefined"}
             THEN Undefined
             ELSE Str(trimmed)

\* z.string().url() accepts s: a scheme of letters, "://" and a host
IsUrl(s) ==
    LET k == IndexOf(s, "://")
    IN  /\ k > 0
        /\ RunOf(ToLowerCase(s), 0, Letters) = k
        /\ Len(s) > k + 3

RECURSIVE DigitsValue(_, _)
\* the number the digits of s denote, after acc
DigitsValue(s, acc) ==
    IF Len(s) = 0 THEN acc
    ELSE DigitsValue(SliceFrom(s, 1),
                     10 * acc + IndexOf("0123456789", CharAt(s, 0)))

\* Number.parseInt(s, 10) for a trimmed s without sign: the number of its
\* leading digits; finite is FALSE for NaN
parseInt(s) ==
    LET n == RunOf(s, 0, Digits)
    IN  [finite |-> n > 0, n |-> DigitsValue(Slice(s, 0, n), 0)]

\* a variant of privateKeyRaw that asks the environment first
privateKeyRawEnvFirst(options, env) ==
    Coalesce(env["EVM_PRIVATE_KEY"],
    Coalesce(env["POLYMARKET_PRIVATE_KEY"],
    Coalesce(env["WALLET_PRIVATE_KEY"],
    Coalesce(env["PRIVATE_KEY"], options.privateKey))))

\* loadEnvConfig: privateKeyRaw
privateKeyRaw(options, env) ==
    Coalesce(options.privateKey,
    Coalesce(env["EVM_PRIVATE_KEY"],
    Coalesce(env["POLYMARKET_PRIVATE_KEY"],
    Coalesce(env["WALLET_PRIVATE_KEY"], env["PRIVATE_KEY"]))))

\* loadEnvConfig: clobApiUrlRaw
clobApiUrlRaw(options, env) ==
    Coalesce(options.clobApiUrl,
    Coalesce(env["CLOB_API_URL"], Str("https://clob.polymarket.com")))

NoCreds == [set |-> FALSE, key |-> "", secret |-> "", passphrase |-> ""]

NoConfig ==
    [privateKey |-> "", clobApiUrl |-> "", creds |-> NoCreds,
     signatureType |-> [set |-> FALSE, n |-> 0], funderAddress |-> Undefined]

\* loadEnvConfig(options), reading process.env: the config it returns, or
\* threw when it throws
loadEnvConfig(options, env) ==
    LET raw  == privateKeyRaw(options, env)
        pk   == PrivateKeySchema(raw.v)
        url  == clobApiUrlRaw(options, env)
        sigRaw == normalizeEnvValue(
                      Coalesce(env["POLYMARKET_SIGNATURE_TYPE"],
                               env["CLOB_SIGNATURE_TYPE"]))
        sig  == parseInt(sigRaw.v)
        funderAddress ==
            normalizeEnvValue(
                Coalesce(env["POLYMARKET_FUNDER_ADDRESS"],
                Coalesce(env["POLYMARKET_FUNDER"],
                         env["CLOB_FUNDER_ADDRESS"])))
        key  == normalizeEnvValue(env["CLOB_API_KEY"])
        secret == normalizeEnvValue(
                      Coalesce(env["CLOB_API_SECRET"], env["CLOB_SECRET"]))
        passphrase ==
            normalizeEnvValue(
                Coalesce(env["CLOB_API_PASSPHRASE"], env["CLOB_PASS_PHRASE"]))
        creds == IF key.set /\ secret.set /\ passphrase.set
                 THEN [set |-> TRUE, key |-> key.v, secret |-> secret.v,
                       passphrase |-> passphrase.v]
                 ELSE NoCreds
    IN  IF \/ ~raw.set
           \/ ~pk.ok
           \/ ~IsUrl(url.v)
           \/ (sigRaw.set /\ ~sig.finite)
           \/ (options.execute /\ ~key.set)
           \/ (options.execute /\ ~creds.set)
        THEN [threw |-> TRUE, config |-> NoConfig]
        ELSE [threw |-> FALSE,
              config |->
                  [privateKey |-> pk.out, clobApiUrl |-> url.v,
                   creds |-> creds,
                   signatureType |->
                       IF sigRaw.set THEN [set |-> TRUE, n |-> sig.n]
                       ELSE [set |-> FALSE, n |-> 0],
                   funderAddress |-> funderAddress]]

\* the values the environment variables take in the model
EnvValues ==
    [EVM_PRIVATE_KEY             |-> {"0x" \o Repeat("1", 64), "0x1234"},
     POLYMARKET_PRIVATE_KEY      |-> {"0x" \o Repeat("2", 64)},
     WALLET_PRIVATE_KEY          |-> {Repeat("3", 64)},
     PRIVATE_KEY                 |-> {"0x" \o Repeat("4", 64)},
     CLOB_API_URL                |-> {"https://b.example", "nope"},
     POLYMARKET_SIGNATURE_TYPE   |-> {"1", "x"},
     CLOB_SIGNATURE_TYPE         |-> {},
     POLYMARKET_FUNDER_ADDRESS   |-> {"0xF"},
     POLYMARKET_FUNDER           |-> {},
     CLOB_FUNDER_ADDRESS         |-> {},
     CLOB_API_KEY                |-> {"k", " ", "NULL"},
     CLOB_API_SECRET             |-> {" s ", ""},
     CLOB_SECRET                 |-> {"t"},
     CLOB_API_PASSPHRASE         |-> {"p", "Undefined"},
     CLOB_PASS_PHRASE            |-> {"q"}]

EnvNames == DOMAIN EnvValues

EnvOptions ==
    [execute    : BOOLEAN,
     privateKey : {Undefined, Str(Repeat("5", 64))},
     clobApiUrl : {Undefined, Str("https://a.example")}]

EnvInit ==
    /\ \E options \in EnvOptions :
           args = [fn |-> "loadEnvConfig", options |-> options,
                   env |-> [n \in EnvNames |-> Undefined]]
    /\ result = [done |-> FALSE]
    /\ TagIdle
    /\ ScrubIdle
    /\ StdinIdle
    /\ UiIdle
    /\ AppIdle
    /\ WinIdle
    /\ PollIdle
    /\ ViewIdle
    /\ ExitIdle
    /\ RespIdle
    /\ ExtIdle

\* process.env.NAME = value
SetEnv ==
    /\ ~result.done
    /\ Cardinality({n \in EnvNames : args.env[n].set}) < MaxEnvSet
    /\ \E name \in EnvNames :
           /\ ~args.env[name].set
           /\ \E v \in EnvValues[name] :
                  args' = [args EXCEPT !.env[name] = Str(v)]
    /\ UNCHANGED <<result, tagVars, scrubVars, stdinVars, uiVars, appVars,
                   winVars, respVars, extVars, pollVars, viewVars, exitVars>>

\* cfg = loadEnvConfig(options)
LoadEnvConfig ==
    /\ ~result.done
    /\ \E r \in {loadEnvConfig(args.options, args.env)} :
           result' = [done |-> TRUE, threw |-> r.threw, config |-> r.config]
    /\ UNCHANGED <<args, tagVars, scrubVars, stdinVars, uiVars, appVars,
                   winVars, respVars, extVars, pollVars, viewVars, exitVars>>

EnvNext == SetEnv \/ LoadEnvConfig

SpecEnv == EnvInit /\ [][EnvNext]_vars

\* x is present and not blank, nor the literal null or undefined
Present(x) ==
    /\ x.set
    /\ Trim(x.v) # ""
    /\ ToLowerCase(Trim(x.v)) \notin {"null", "undefined"}

\* the three credentials as loadEnvConfig reads them
EnvApiKey == args.env["CLOB_API_KEY"]
EnvApiSecret == Coalesce(args.env["CLOB_API_SECRET"], args.env["CLOB_SECRET"])
EnvApiPassphrase ==
    Coalesce(args.env["CLOB_API_PASSPHRASE"], args.env["CLOB_PASS_PHRASE"])
AllCredentials ==
    Present(EnvApiKey) /\ Present(EnvApiSecret) /\ Present(EnvApiPassphrase)

\* one of the credentials is under neither of its names, or blank, or the
\* literal null or undefined under the name that is read
CredentialMissing ==
    \/ ~Present(args.env["CLOB_API_KEY"])
    \/ (~Present(args.env["CLOB_API_SECRET"])
        /\ ~Present(args.env["CLOB_SECRET"]))
    \/ (~Present(args.env["CLOB_API_PASSPHRASE"])
        /\ ~Present(args.env["CLOB_PASS_PHRASE"]))

\* the private key sources in the order loadEnvConfig asks them
KeySources ==
    <<args.options.privateKey, args.env["EVM_PRIVATE_KEY"],
      args.env["POLYMARKET_PRIVATE_KEY"], args.env["WALLET_PRIVATE_KEY"],
      args.env["PRIVATE_KEY"]>>

\* what besides the credentials makes loadEnvConfig throw
ThrowsBeforeCredentials ==
    \/ \A k \in DOMAIN KeySources : ~KeySources[k].set
    \/ \E k \in DOMAIN KeySources :
           /\ KeySources[k].set
           /\ \A j \in 1..(k - 1) : ~KeySources[j].set
           /\ ~PrivateKeySchema(KeySources[k].v).ok
    \/ ~IsUrl(clobApiUrlRaw(args.options, args.env).v)
    \/ LET sigRaw == normalizeEnvValue(
                          Coalesce(args.env["POLYMARKET_SIGNATURE_TYPE"],
                                   args.env["CLOB_SIGNATURE_TYPE"]))
       IN  sigRaw.set /\ ~parseInt(sigRaw.v).finite

\* C23: with execute = true loadEnvConfig returns a config only when the
\* API key, the secret and the passphrase are all present and not blank,
\* and throws when one of them is missing, blank or the literal null or
\* undefined; with execute = false it never throws for missing credentials
\* and returns creds = null unless all three are present.
C23_ExecuteNeedsCredentials ==
    result.done =>
        /\ (args.options.execute /\ ~result.threw) =>
               (AllCredentials /\ result.config.creds.set)
        /\ (args.options.execute /\ CredentialMissing) => result.threw
        /\ (args.options.execute /\ ~AllCredentials) => result.threw
        /\ ~args.options.execute =>
               /\ result.threw <=> ThrowsBeforeCredentials
               /\ ~result.threw =>
                      (result.config.creds.set <=> AllCredentials)
               /\ (~result.threw /\ CredentialMissing) =>
                      ~result.config.creds.set

\* with --execute and the three credentials set, a config with them is
\* returned
C23_Witness ==
    /\ result.done
    /\ args.options.execute
    /\ args.options.privateKey.set
    /\ args.env["CLOB_API_KEY"] = Str("k")
    /\ args.env["CLOB_API_SECRET"] = Str(" s ")
    /\ args.env["CLOB_PASS_PHRASE"] = Str("q")
    /\ ~result.threw
    /\ result.config.creds =
           [set |-> TRUE, key |-> "k", secret |-> "s", passphrase |-> "q"]

\* the first private key source that is set, or Undefined
FirstKeySource ==
    IF \A k \in DOMAIN KeySources : ~KeySources[k].set THEN Undefined
    ELSE KeySources[CHOOSE k \in DOMAIN KeySources :
                        /\ KeySources[k].set
                        /\ \A j \in 1..(k - 1) : ~KeySources[j].set]

\* C24: loadEnvConfig throws when no private key comes from any source
\* (options.privateKey, EVM_PRIVATE_KEY, POLYMARKET_PRIVATE_KEY,
\* WALLET_PRIVATE_KEY, PRIVATE_KEY), and whenever it returns the privateKey
\* it returns is 0x followed by exactly 64 hexadecimal digits.
C24_PrivateKeyRequired ==
    result.done =>
        /\ (\A k \in DOMAIN KeySources : ~KeySources[k].set) => result.threw
        /\ ~result.threw =>
               /\ Len(result.config.privateKey) = 66
               /\ SubSeq(result.config.privateKey, 1, 2) = "0x"
               /\ IsKeyBody(SubSeq(result.config.privateKey, 3, 66))

\* the key of WALLET_PRIVATE_KEY, written without 0x, is returned with it
C24_Witness ==
    /\ result.done
    /\ ~args.options.privateKey.set
    /\ ~args.env["EVM_PRIVATE_KEY"].set
    /\ ~args.env["POLYMARKET_PRIVATE_KEY"].set
    /\ args.env["WALLET_PRIVATE_KEY"] = Str(Repeat("3", 64))
    /\ args.env["PRIVATE_KEY"].set
    /\ ~result.threw
    /\ result.config.privateKey = "0x" \o Repeat("3", 64)

\* C25: the command-line overrides come before the environment: when
\* options.privateKey is set it is the key used whatever the private key
\* variables hold, when options.clobApiUrl is set it is the URL used whatever
\* CLOB_API_URL holds, and without overrides the first variable that is set
\* among EVM_PRIVATE_KEY, POLYMARKET_PRIVATE_KEY, WALLET_PRIVATE_KEY and
\* PRIVATE_KEY supplies the key.
C25_OverridesFirst ==
    result.done =>
        /\ (FirstKeySource.set /\ ~PrivateKeySchema(FirstKeySource.v).ok) =>
               result.threw
        /\ ~result.threw =>
               /\ result.config.privateKey =
                      PrivateKeySchema(FirstKeySource.v).out
               /\ args.options.privateKey.set =>
                      result.config.privateKey =
                          PrivateKeySchema(args.options.privateKey.v).out
               /\ args.options.clobApiUrl.set =>
                      result.config.clobApiUrl = args.options.clobApiUrl.v
               /\ (~args.options.clobApiUrl.set
                   /\ args.env["CLOB_API_URL"].set) =>
                      result.config.clobApiUrl = args.env["CLOB_API_URL"].v

\* both overrides are given while EVM_PRIVATE_KEY and CLOB_API_URL are set
\* to other values, and the overrides are what is returned
C25_Witness ==
    /\ result.done
    /\ args.options.privateKey = Str(Repeat("5", 64))
    /\ args.options.clobApiUrl = Str("https://a.example")
    /\ args.env["EVM_PRIVATE_KEY"] = Str("0x" \o Repeat("1", 64))
    /\ args.env["CLOB_API_URL"] = Str("https://b.example")
    /\ ~result.threw
    /\ result.config.privateKey = "0x" \o Repeat("5", 64)
    /\ result.config.clobApiUrl = "https://a.example"

----------------------------------------------------------------------------
(* consumeMouseScroll applied on its own to a buffer.                       *)

\* number of pieces a buffer is made of
MaxWheelPieces == 3

\* SGR wheel reports, SGR reports of other buttons, a urxvt report, an X10
\* report, an unfinished SGR report and what finishes it, and text
WheelPieces ==
    {ESC \o "[<64;1;1M", ESC \o "[<65;10;5m", ESC \o "[<96;2;3M",
     ESC \o "[<97;1;1m", ESC \o "[<0;1;2M", ESC \o "[<640;1;1M",
     ESC \o "[64;1;1M", ESC \o "[Ma!!", ESC \o "[<65;1", ";1M", "ab"}

WheelBuffers == Concats(WheelPieces, MaxWheelPieces)

WheelInit ==
    /\ \E buf \in WheelBuffers :
           args = [fn |-> "consumeMouseScroll", buf |-> buf]
    /\ result = [done |-> FALSE]
    /\ TagIdle
    /\ ScrubIdle
    /\ StdinIdle
    /\ UiIdle
    /\ AppIdle
    /\ WinIdle
    /\ PollIdle
    /\ ViewIdle
    /\ ExitIdle
    /\ RespIdle
    /\ ExtIdle

\* scroll = consumeMouseScroll(buffer)
ConsumeMouseScroll ==
    /\ ~result.done
    /\ result' = [done |-> TRUE, scroll |-> consumeMouseScroll(args.buf)]
    /\ UNCHANGED <<args, tagVars, scrubVars, stdinVars, uiVars, appVars,
                   winVars, respVars, extVars, pollVars, viewVars, exitVars>>

WheelNext == ConsumeMouseScroll

SpecWheel == WheelInit /\ [][WheelNext]_vars

\* a complete SGR sequence ESC[<b;col;row(m|M) with b in codes starts at
\* index i of s
SgrReportAt(s, i, codes) ==
    /\ StartsWithAt(s, ESC \o "[<", i)
    /\ MatchTriple(s, i + 3, {"m", "M"}) # -1
    /\ Slice(s, i + 3, i + 3 + RunOf(s, i + 3, Digits)) \in codes

\* the number of complete SGR sequences with b in codes in s
SgrReports(s, codes) ==
    Cardinality({i \in 0..(Len(s) - 1) : SgrReportAt(s, i, codes)})

\* C27: for every buffer the delta consumeMouseScroll returns is the number
\* of complete SGR sequences ESC[<b;col;row(m|M) with b in {64, 96} less the
\* number of those with b in {65, 97}; SGR sequences of other buttons,
\* urxvt and X10 sequences and unfinished sequences count for nothing.
C27_DeltaCountsWheelReports ==
    result.done =>
        result.scroll.delta =
            SgrReports(args.buf, {"64", "96"})
                - SgrReports(args.buf, {"65", "97"})

\* an unfinished wheel-down report is finished by the next characters and
\* counted, the X10 report after it is not
C27_Witness ==
    /\ result.done
    /\ args.buf = ESC \o "[<65;1" \o ";1M" \o ESC \o "[Ma!!"
    /\ result.scroll.delta = -1

\* the first space-delimited word of a line
FirstWord(line) == Head(Split(line, " "))

\* the lines of the paragraphs of the text wrapText was given, paragraph by
\* paragraph
ParagraphLines ==
    LET paragraphs == Split(args.text, "\n")
    IN  [k \in DOMAIN paragraphs |->
            WrapParagraph(paragraphs[k], args.maxWidth)]

\* C28: wrapText packs greedily: for maxWidth > 0, whenever two consecutive
\* lines L and L' come from the same paragraph, the first space-delimited
\* word of L' would not have fit on L: length(L) + 1 + length(first word of
\* L') > maxWidth; wrapText("a b c", 3) is ["a b", "c"].
C28_GreedyPacking ==
    (result.done /\ args.maxWidth > 0) =>
        /\ result.out = IF FlatLines(ParagraphLines) = <<>> THEN <<"">>
                        ELSE FlatLines(ParagraphLines)
        /\ \A k \in DOMAIN ParagraphLines :
               \A j \in 1..(Len(ParagraphLines[k]) - 1) :
                   Len(ParagraphLines[k][j]) + 1
                       + Len(FirstWord(ParagraphLines[k][j + 1]))
                   > args.maxWidth
        /\ (args.text = "a b c" /\ args.maxWidth = 3) =>
               result.out = <<"a b", "c">>

\* "a b c" has been wrapped to 3 columns
C28_Witness ==
    /\ result.done
    /\ args.text = "a b c"
    /\ args.maxWidth = 3
    /\ result.out = <<"a b", "c">>

\* a is a prefix of b
IsPrefix(a, b) == Len(a) <= Len(b) /\ SubSeq(b, 1, Len(a)) = a

\* the true content of tag in s: what stands between the first open marker
\* and the first close marker after it, or after the open marker when there
\* is no close marker, or nothing when there is no open marker
TrueContent(s, tag) ==
    IF OpenAt(s, tag) = -1 THEN ""
    ELSE IF CloseAt(s, tag) = -1 THEN SliceFrom(s, ContentStart(s, tag))
    ELSE TagContent(s, tag)

\* C29: across any sequence of pushes on a tracker its text only grows by
\* appending, the text before a push being a prefix of the text after it,
\* and at every moment the text is a prefix of the true content between the
\* open and the close marker: no character of the close marker and nothing
\* after it ever enters the text.
C29_TextGrowsWithinContent ==
    /\ [][IsPrefix(tagState.text, tagState'.text)]_vars
    /\ [](/\ IsPrefix(tagState.text, TrueContent(Delivered, TrackedTag))
          /\ IsPrefix(tagState.text, TrueContent(stream, TrackedTag)))

\* nine characters of content have arrived and the close marker has not:
\* the text holds the first two and the buffer withholds the other seven
C29_Witness ==
    /\ stream = "<text>" \o "<actions>" \o "</text>"
    /\ pos = Len("<text>" \o "<actions>")
    /\ tagState = [opened |-> TRUE, done |-> FALSE, text |-> "<a"]
    /\ buffer = "ctions>"

\* C30: while a tracker is accumulating and the close marker has not
\* arrived, after every push the buffer holds at most len(closeTag)
\* characters and the text followed by the buffer is all the content
\* received after the open marker; a tracker is done only when the close
\* marker has arrived, so when it never arrives the withheld characters
\* never enter the text.
C30_HoldbackBounded ==
    /\ (tagState.opened /\ ~tagState.done) =>
           /\ CloseAt(Delivered, TrackedTag) = -1
           /\ Len(buffer) <= Len(CloseTag(TrackedTag))
           /\ tagState.text \o buffer =
                  SliceFrom(Delivered, ContentStart(Delivered, TrackedTag))
    /\ tagState.done => CloseAt(Delivered, TrackedTag) # -1
    /\ (pos = Len(stream) /\ tagState.opened /\ ~tagState.done) =>
           tagState.text =
               Slice(TrueContent(stream, TrackedTag), 0,
                     Len(TrueContent(stream, TrackedTag)) - Len(buffer))

\* the stream ended without a close marker: the last seven characters
\* received stay withheld
C30_Witness ==
    /\ stream = "<text>" \o "B</te" \o "B</te"
    /\ pos = Len(stream)
    /\ tagState = [opened |-> TRUE, done |-> FALSE, text |-> "B</"]
    /\ buffer = "teB</te"

----------------------------------------------------------------------------
(* The chat input field of PolymarketTuiApp under input changes, wheel     *)
(* reports on stdin, Escape, Ctrl+C and submitted commands.                *)

\* the longest value the text input hands to handleInputChange
MaxInputLen == 6

\* hasMouseSequence(value)
hasMouseSequence(v) ==
    \E i \in 0..(Len(v) - 1) :
        \/ MatchSgrMouse(v, i) # -1
        \/ MatchUrxvtMouse(v, i) # -1
        \/ MatchX10Mouse(v, i) # -1
        \/ MatchPartialMouse(v, i) # -1
        \/ MatchPartialX10(v, i) # -1

RECURSIVE JoinLinesFrom(_, _)
\* s.replace(/\s*\n\s*/g, " ") from index i on: every maximal run of white
\* space that holds a newline becomes one space
JoinLinesFrom(s, i) ==
    IF i >= Len(s) THEN ""
    ELSE LET run == RunOf(s, i, WhiteSpace)
         IN  IF run = 0 THEN CharAt(s, i) \o JoinLinesFrom(s, i + 1)
             ELSE IF HasChar(Slice(s, i, i + run), "\n")
             THEN " " \o JoinLinesFrom(s, i + run)
             ELSE Slice(s, i, i + run) \o JoinLinesFrom(s, i + run)

\* handleInputChange(value), as a function of the stored input: the scrubbed
\* stored input when value holds a mouse report, else the scrubbed value
\* with its line breaks joined
handleInputChange(prev, v) ==
    CHOOSE next \in
        {IF mouse THEN c ELSE JoinLinesFrom(c, 0) :
             <<mouse, c>> \in
                 {<<m, stripInputArtifacts(IF m THEN prev ELSE v)>> :
                      m \in {hasMouseSequence(v)}}} : TRUE

\* what one keystroke or one paste adds to the value of the text input
InputPieces ==
    {"a\nb", "[", "Mabc", "/help"}

InputWheelStream == "[<64;1;1M"

InputInit ==
    /\ stdinStream = InputWheelStream
    /\ stdinPos = 0
    /\ stdinBuffer = ""
    /\ deltaSum = 0
    /\ UiIdle
    /\ AppIdle
    /\ TagIdle
    /\ ScrubIdle
    /\ WinIdle
    /\ PollIdle
    /\ ViewIdle
    /\ ExitIdle
    /\ RespIdle
    /\ ExtIdle
    /\ CallIdle

\* the text input's onChange: the stored value with a piece typed or pasted
\* at its end
HandleInputChange ==
    /\ \E piece \in InputPieces :
           /\ Len(input) + Len(piece) <= MaxInputLen
           /\ input' = handleInputChange(input, input \o piece)
    /\ UNCHANGED <<focusPanel, scrollOffset, sidebarScrollOffset,
                   chatMaxScroll, sidebarMaxScroll, appVars, tagVars,
                   scrubVars, stdinVars, winVars, respVars, extVars,
                   callVars, pollVars, viewVars, exitVars>>

\* useInput: Escape
Escape ==
    /\ input' = ""
    /\ UNCHANGED <<focusPanel, scrollOffset, sidebarScrollOffset,
                   chatMaxScroll, sidebarMaxScroll, appVars, tagVars,
                   scrubVars, stdinVars, winVars, respVars, extVars,
                   callVars, pollVars, viewVars, exitVars>>

\* handleSubmit(input) when the field holds the command /help
SubmitInput ==
    \E c \in {stripInputArtifacts(input)} : \E trimmed \in {Trim(c)} :
        /\ trimmed = "/help"
        /\ nextId < MaxMessages
        /\ input' = ""
        /\ messages' = Append(messages,
                              [id        |-> "m" \o ToString(nextId),
                               role      |-> "system",
                               content   |-> "Commands: /clear",
                               timestamp |-> 605])
        /\ nextId' = nextId + 1
        /\ scrollOffset' = 0
        /\ UNCHANGED <<focusPanel, sidebarScrollOffset, chatMaxScroll,
                       sidebarMaxScroll, terminalSize, layout, tagVars,
                       scrubVars, stdinVars, winVars, respVars, extVars,
                       callVars, pollVars, viewVars, exitVars>>

InputNext ==
    \/ HandleInputChange
    \/ OnData
    \/ Escape
    \/ CtrlC
    \/ SubmitInput

SpecInput == InputInit /\ [][InputNext]_vars

\* C31: after any sequence of input changes, wheel events, Escape, Ctrl+C
\* and submits the stored input holds no ESC, no control byte other than
\* tab, no newline and no fragment that hasMouseSequence recognizes.
C31_InputAlwaysClean ==
    /\ \A c \in {ESC, SOH, BEL, DEL, "\r", "\n"} : ~HasChar(input, c)
    /\ ~hasMouseSequence(input)

----------------------------------------------------------------------------
(* The stdin effect of PolymarketTuiApp between two chunks: its buffer is  *)
(* a local of the effect, and the effect depends on chatMaxScroll,         *)
(* focusPanel and sidebarMaxScroll.                                        *)

\* the maxScroll values a panel reports in this specification
ScrollReports == {0, 1}

\* the buffer of the stdin effect after a render: the cleanup removes the
\* listener and the effect runs again with a new buffer when one of its
\* dependencies changed
Resubscribed(changed, buf) == IF changed THEN "" ELSE buf

FocusInit ==
    /\ stdinStream \in {ESC \o "[<64;1;1M", ESC \o "[<65;1;1M"}
    /\ stdinPos = 0
    /\ stdinBuffer = ""
    /\ deltaSum = 0
    /\ UiIdle
    /\ AppIdle
    /\ TagIdle
    /\ ScrubIdle
    /\ WinIdle
    /\ PollIdle
    /\ ViewIdle
    /\ ExitIdle
    /\ RespIdle
    /\ ExtIdle
    /\ CallIdle

\* showChatPanel and showSidebarPanel
ShowChatPanel(lay, columns) ==
    IF IsWide(columns) THEN ShowChat(lay) ELSE lay # "sidebar"
ShowSidebarPanel(lay, columns) ==
    IF IsWide(columns) THEN ShowSidebar(lay) ELSE lay = "sidebar"

\* the focus the effect on [layout] sets
FocusForLayout(lay, focus) ==
    IF lay = "chat" THEN "chat"
    ELSE IF lay = "sidebar" THEN "sidebar"
    ELSE focus

\* a variant of the effect on [focusPanel, isWide, layout] that leaves the
\* layout as it is
LayoutForWidthKept(lay, focus, columns) == lay

\* the layout the effect on [focusPanel, isWide, layout] sets
LayoutForWidth(lay, focus, columns) ==
    IF IsWide(columns) THEN lay
    ELSE IF lay = "split"
    THEN (IF focus = "sidebar" THEN "sidebar" ELSE "chat")
    ELSE lay

\* no effect has a state change left to make: every effect whose
\* dependencies changed in the last render has run
Settled ==
    /\ FocusForLayout(layout, focusPanel) = focusPanel
    /\ LayoutForWidth(layout, focusPanel, terminalSize.columns) = layout

\* useInput: Tab alone
Tab ==
    /\ Settled
    /\ layout' = CASE layout = "split" -> "split"
                   [] layout = "chat" ->
                          IF IsWide(terminalSize.columns) THEN "split"
                          ELSE "sidebar"
                   [] OTHER ->
                          IF IsWide(terminalSize.columns) THEN "split"
                          ELSE "chat"
    /\ focusPanel' = CASE layout = "split" ->
                              IF focusPanel = "chat" THEN "sidebar" ELSE "chat"
                       [] layout = "chat" -> "sidebar"
                       [] OTHER -> "chat"
    /\ stdinBuffer' = Resubscribed(focusPanel' # focusPanel, stdinBuffer)
    /\ UNCHANGED <<stdinStream, stdinPos, deltaSum, input, scrollOffset,
                   sidebarScrollOffset, chatMaxScroll, sidebarMaxScroll,
                   messages, terminalSize, nextId, tagVars, scrubVars,
                   winVars, respVars, extVars, callVars, pollVars, viewVars,
                   exitVars>>

\* onMaxScrollChange of the chat panel: setChatMaxScroll(maxScroll)
ChatMaxScrollChange ==
    /\ \E maxScroll \in ScrollReports : chatMaxScroll' = maxScroll
    /\ stdinBuffer' = Resubscribed(chatMaxScroll' # chatMaxScroll, stdinBuffer)
    /\ UNCHANGED <<stdinStream, stdinPos, deltaSum, input, focusPanel,
                   scrollOffset, sidebarScrollOffset, sidebarMaxScroll,
                   appVars, tagVars, scrubVars, winVars, respVars, extVars,
                   callVars, pollVars, viewVars, exitVars>>

\* onMaxScrollChange of the sidebar panel: setSidebarMaxScroll(maxScroll)
SidebarMaxScrollChange ==
    /\ \E maxScroll \in ScrollReports : sidebarMaxScroll' = maxScroll
    /\ stdinBuffer' =
           Resubscribed(sidebarMaxScroll' # sidebarMaxScroll, stdinBuffer)
    /\ UNCHANGED <<stdinStream, stdinPos, deltaSum, input, focusPanel,
                   scrollOffset, sidebarScrollOffset, chatMaxScroll, appVars,
                   tagVars, scrubVars, winVars, respVars, extVars, callVars,
                   pollVars, viewVars, exitVars>>

FocusNext ==
    \/ OnData
    \/ Tab
    \/ ChatMaxScrollChange
    \/ SidebarMaxScrollChange

SpecFocus == FocusInit /\ [][FocusNext]_vars

\* C32: the pending buffer of the stdin handler survives every other UI
\* event (a step that receives no characters leaves it as it is), and a
\* wheel sequence that arrived in chunks with a focus change or a maxScroll
\* change in between is decoded once, with delta +1 or -1.
C32_BufferSurvivesUiEvents ==
    /\ [][stdinPos' = stdinPos => stdinBuffer' = stdinBuffer]_vars
    /\ [](stdinPos = Len(stdinStream) =>
              deltaSum = consumeMouseScroll(stdinStream).delta)

----------------------------------------------------------------------------
(* pollAutonomyLogs, started every 1500 ms by a timer of PolymarketTuiApp: *)
(* a poll may start while earlier ones still await getMemories, and all    *)
(* share lastAutonomyRef.current.                                          *)

\* the most memories the autonomous room gets
MaxMemories == 2
\* the most polls in flight at once
MaxPolls == 2

\* createdAt of the memories: in any order, ties included
CreatedAts == {1, 2}

MemoryMetadata ==
    {[isAutonomous |-> TRUE, type |-> "autonomous-response"],
     [isAutonomous |-> TRUE, type |-> "autonomous-thought"]}

\* isAutonomyResponse(memory), for memories with a number as createdAt and
\* a string as content.text
isAutonomyResponse(memory) ==
    memory.metadata.isAutonomous /\ memory.metadata.type = "autonomous-response"

\* seq without its k-th element
RemoveAt(seq, k) == SubSeq(seq, 1, k - 1) \o SubSeq(seq, k + 1, Len(seq))

RECURSIVE SortByCreatedAt(_)
\* seq.sort((a, b) => a.createdAt - b.createdAt): a stable sort
SortByCreatedAt(seq) ==
    IF seq = <<>> THEN <<>>
    ELSE LET k == CHOOSE i \in DOMAIN seq :
                      \A j \in DOMAIN seq :
                          \/ seq[i].createdAt < seq[j].createdAt
                          \/ seq[i].createdAt = seq[j].createdAt /\ i <= j
         IN  <<seq[k]>> \o SortByCreatedAt(RemoveAt(seq, k))

\* a variant of the filter on createdAt that keeps createdAt = lastSeen
FreshMemoriesInclusive(mems, seen) ==
    SortByCreatedAt(SelectSeq(mems, LAMBDA m :
        isAutonomyResponse(m) /\ m.createdAt >= seen))

\* fresh in pollAutonomyLogs: the autonomy responses newer than lastSeen,
\* oldest first
FreshMemories(mems, seen) ==
    SortByCreatedAt(SelectSeq(mems, LAMBDA m :
        isAutonomyResponse(m) /\ m.createdAt > seen))

\* the lines the timer's onLog makes of a text; none when it is blank
AutonomyLines(text) ==
    IF Trim(text) = "" THEN <<>>
    ELSE LET lines == Split(Trim(text), "\n")
         IN  [k \in DOMAIN lines |-> "[Autonomy] " \o lines[k]]

RECURSIVE AutonomyLinesOf(_, _)
\* the lines of the texts of fresh from its k-th memory on, in order
AutonomyLinesOf(fresh, k) ==
    IF k > Len(fresh) THEN <<>>
    ELSE AutonomyLines(fresh[k].text) \o AutonomyLinesOf(fresh, k + 1)

RECURSIVE AppendLogs(_, _, _)
\* appendLog of every line from the k-th on
AppendLogs(prev, lines, k) ==
    IF k > Len(lines) THEN prev
    ELSE AppendLogs(appendLog(prev, lines[k]), lines, k + 1)

PollInit ==
    /\ PollIdle
    /\ ViewIdle
    /\ ExitIdle
    /\ TagIdle
    /\ ScrubIdle
    /\ StdinIdle
    /\ UiIdle
    /\ AppIdle
    /\ WinIdle
    /\ RespIdle
    /\ ExtIdle
    /\ CallIdle

\* the autonomy service stores a memory in its room
CreateMemory ==
    /\ Len(memoryStore) < MaxMemories
    /\ \E createdAt \in CreatedAts, metadata \in MemoryMetadata :
           memoryStore' =
               Append(memoryStore,
                      [id        |-> Len(memoryStore) + 1,
                       createdAt |-> createdAt,
                       text      |-> " r" \o ToString(Len(memoryStore) + 1),
                       metadata  |-> metadata])
    /\ UNCHANGED <<lastSeen, polls, tagVars, scrubVars, stdinVars, uiVars,
                   appVars, winVars, respVars, extVars, callVars, viewVars,
                   exitVars>>

\* the timer fires: pollAutonomyLogs runs up to its await
StartPoll ==
    /\ Len(polls) < MaxPolls
    /\ polls' = Append(polls, [awaiting |-> TRUE, memories |-> <<>>])
    /\ UNCHANGED <<lastSeen, memoryStore, tagVars, scrubVars, stdinVars,
                   uiVars, appVars, winVars, respVars, extVars, callVars,
                   viewVars, exitVars>>

\* runtime.getMemories of one poll reads the room
GetMemories ==
    /\ \E p \in DOMAIN polls :
           /\ polls[p].awaiting
           /\ polls' = [polls EXCEPT ![p] = [awaiting |-> FALSE,
                                             memories |-> memoryStore]]
    /\ UNCHANGED <<lastSeen, memoryStore, tagVars, scrubVars, stdinVars,
                   uiVars, appVars, winVars, respVars, extVars, callVars,
                   viewVars, exitVars>>

\* one poll resumes after its await and runs to its end: fresh, the onLog
\* calls (appendMessage and appendLog of every line) and lastSeen.value
ResumePoll ==
    /\ \E p \in DOMAIN polls :
           /\ ~polls[p].awaiting
           /\ polls' = RemoveAt(polls, p)
           /\ \E fresh \in {FreshMemories(polls[p].memories, lastSeen)} :
              \E lines \in {AutonomyLinesOf(fresh, 1)} :
                  /\ messages' = messages \o
                         [k \in DOMAIN lines |->
                             [id        |-> "m" \o ToString(nextId + k - 1),
                              role      |-> "system",
                              content   |-> lines[k],
                              timestamp |-> 605]]
                  /\ nextId' = nextId + Len(lines)
                  /\ scrollOffset' = IF Len(lines) > 0 THEN 0 ELSE scrollOffset
                  /\ logs' = AppendLogs(logs, lines, 1)
                  /\ lastSeen' = IF Len(fresh) > 0
                                 THEN fresh[Len(fresh)].createdAt
                                 ELSE lastSeen
    /\ UNCHANGED <<memoryStore, input, focusPanel, sidebarScrollOffset,
                   chatMaxScroll, sidebarMaxScroll, terminalSize, layout,
                   thoughtState, thinkingState, actionsState, submission,
                   isProcessing, tagVars, scrubVars, stdinVars, winVars,
                   extVars, callVars, viewVars, exitVars>>

PollNext ==
    \/ CreateMemory
    \/ StartPoll
    \/ GetMemories
    \/ ResumePoll

SpecPoll == PollInit /\ [][PollNext]_vars

\* the log line of the k-th memory of the room
LogLineOf(k) == "[Autonomy] r" \o ToString(k)

\* createdAt of the memory a log line was made of
CreatedAtOfLine(line) ==
    memoryStore[CHOOSE k \in DOMAIN memoryStore : LogLineOf(k) = line].createdAt

\* C33: under any interleaving of polls that share lastSeen, each
\* autonomy-response memory is passed to onLog at most once, the deliveries
\* are in non-decreasing createdAt order, and lastSeen never decreases.
C33_PollsDeliverOnceInOrder ==
    /\ [](\A i, j \in DOMAIN logs :
              /\ i # j => logs[i] # logs[j]
              /\ i < j => CreatedAtOfLine(logs[i]) <= CreatedAtOfLine(logs[j]))
    /\ [](\A k \in DOMAIN logs :
              \E m \in DOMAIN memoryStore :
                  logs[k] = LogLineOf(m) /\ isAutonomyResponse(memoryStore[m]))
    /\ [][lastSeen' >= lastSeen]_vars

\* two polls overlapped: one has delivered both memories, the other is
\* about to resume with a reading that holds the first of them only
C33_Witness ==
    /\ Len(memoryStore) = 2
    /\ logs = <<LogLineOf(1), LogLineOf(2)>>
    /\ lastSeen = 2
    /\ Len(polls) = 1
    /\ ~polls[1].awaiting
    /\ polls[1].memories = SubSeq(memoryStore, 1, 1)

----------------------------------------------------------------------------
(* The .env file of the runner: writeEnvFile on the lines readEnvFile gave, *)
(* then readEnvFile again.                                                  *)

\* the most pieces a value of updates is made of
MaxValuePieces == 3

RECURSIVE ReplaceText(_, _, _)
\* s.replace(/from/g, to) for a literal text from
ReplaceText(s, from, to) ==
    IF Len(s) = 0 THEN ""
    ELSE IF StartsWithAt(s, from, 0)
    THEN to \o ReplaceText(SliceFrom(s, Len(from)), from, to)
    ELSE CharAt(s, 0) \o ReplaceText(SliceFrom(s, 1), from, to)

\* s.slice(1, -1)
Inner(s) == SubSeq(s, 2, Len(s) - 1)

\* s.endsWith(t)
EndsWith(s, t) == Len(s) >= Len(t) /\ SliceFrom(s, Len(s) - Len(t)) = t

\* parseEnvValue(raw)
parseEnvValue(raw) ==
    CHOOSE parsed \in
        {IF Len(trimmed) = 0 THEN ""
         ELSE IF StartsWithAt(trimmed, "\"", 0) /\ EndsWith(trimmed, "\"")
         THEN ReplaceText(ReplaceText(ReplaceText(Inner(trimmed),
                                                  "\\n", "\n"),
                                      "\\\"", "\""),
                          "\\\\", "\\")
         ELSE IF StartsWithAt(trimmed, "'", 0) /\ EndsWith(trimmed, "'")
         THEN Inner(trimmed)
         ELSE trimmed : trimmed \in {Trim(raw)}} : TRUE

\* formatEnvValue(value)
formatEnvValue(val) ==
    IF \A c \in WhiteSpace \cup {"#", "\"", "'", "\\"} : ~HasChar(val, c)
    THEN val
    ELSE "\"" \o ReplaceText(ReplaceText(ReplaceText(val, "\\", "\\\\"),
                                         "\"", "\\\""),
                             "\n", "\\n") \o "\""

\* [A-Za-z0-9_]
IdentChars == Letters \cup Digits \cup {"_"}

\* /^\s*([A-Za-z_][A-Za-z0-9_]*)\s*=\s*(.*)\s*$/ on a line without line
\* terminators: where the key starts, where it ends and where the value
\* starts, or no match
MatchEntry(line) ==
    LET keyStart == RunOf(line, 0, WhiteSpace)
        keyEnd   == keyStart + RunOf(line, keyStart, IdentChars)
        eq       == keyEnd + RunOf(line, keyEnd, WhiteSpace)
    IN  IF /\ keyEnd > keyStart
           /\ CharAt(line, keyStart) \notin Digits
           /\ CharAt(line, eq) = "="
        THEN [matched  |-> TRUE,
              key      |-> Slice(line, keyStart, keyEnd),
              rawValue |-> SliceFrom(line, eq + 1 +
                                           RunOf(line, eq + 1, WhiteSpace))]
        ELSE [matched |-> FALSE]

\* parseEnvLine(line)
parseEnvLine(line) ==
    IF Len(Trim(line)) = 0 THEN [type |-> "blank", raw |-> line]
    ELSE IF StartsWithAt(Trim(line), "#", 0)
    THEN [type |-> "comment", raw |-> line]
    ELSE IF ~MatchEntry(line).matched
    THEN [type |-> "comment", raw |-> line]
    ELSE [type  |-> "entry",
          key   |-> MatchEntry(line).key,
          value |-> parseEnvValue(MatchEntry(line).rawValue),
          raw   |-> line]

\* serializeEnvLines(lines)
serializeEnvLines(lines) ==
    TrimEnd(Join([k \in DOMAIN lines |->
                     IF lines[k].type = "entry"
                     THEN lines[k].key \o "=" \o
                          formatEnvValue(lines[k].value)
                     ELSE lines[k].raw], "\n")) \o "\n"

\* contents.split(/\r?\n/)
SplitLines(contents) ==
    LET parts == Split(contents, "\n")
    IN  [k \in DOMAIN parts |->
            IF k < Len(parts) /\ EndsWith(parts[k], "\r")
            THEN SubSeq(parts[k], 1, Len(parts[k]) - 1)
            ELSE parts[k]]

\* the values of readEnvFile: for every key the value of its last entry
ValuesOf(lines) ==
    LET entries == {k \in DOMAIN lines : lines[k].type = "entry"}
    IN  [key \in {lines[k].key : k \in entries} |->
            lines[CHOOSE k \in entries :
                      /\ lines[k].key = key
                      /\ \A j \in entries :
                             lines[j].key = key => j <= k].value]

\* readEnvFile(envPath) of a file that exists
readEnvFile(contents) ==
    LET lines == [k \in DOMAIN SplitLines(contents) |->
                     parseEnvLine(SplitLines(contents)[k])]
    IN  [exists |-> TRUE, lines |-> lines, values |-> ValuesOf(lines)]

\* writeEnvFile(envPath, existingLines, updates): the text written; updates
\* is the sequence of the entries of the updates object
writeEnvFile(existingLines, updates) ==
    LET Has(key) == \E u \in DOMAIN updates : updates[u].key = key
        Get(key) == updates[CHOOSE u \in DOMAIN updates :
                                updates[u].key = key].value
        \* pending.has(line.key) at line k: no earlier entry took the key
        Pending(k) ==
            /\ Has(existingLines[k].key)
            /\ \A j \in 1..(k - 1) :
                   existingLines[j].type = "entry" =>
                       existingLines[j].key # existingLines[k].key
        mapped == [k \in DOMAIN existingLines |->
                      IF existingLines[k].type # "entry" THEN existingLines[k]
                      ELSE IF ~Pending(k) THEN existingLines[k]
                      ELSE [type  |-> "entry",
                            key   |-> existingLines[k].key,
                            value |-> Get(existingLines[k].key),
                            raw   |-> existingLines[k].key \o "=" \o
                                      formatEnvValue(
                                          Get(existingLines[k].key))]]
        left == SelectSeq(updates, LAMBDA u :
                    \A k \in DOMAIN existingLines :
                        existingLines[k].type = "entry" =>
                            existingLines[k].key # u.key)
    IN  serializeEnvLines(
            mapped \o [u \in DOMAIN left |->
                          [type  |-> "entry",
                           key   |-> left[u].key,
                           value |-> left[u].value,
                           raw   |-> left[u].key \o "=" \o
                                     formatEnvValue(left[u].value)]])

EnvFilePieces == {"a", "\\", "n", "\"", " ", "#", "\n", "'"}

EnvFileValues == Concats(EnvFilePieces, MaxValuePieces)

EnvFileContents ==
    {"", "K=old\n", "K=old\nK=older\n", "# c\n\nJ='1'\n K = \"x y\" \n"}

EnvFileInit ==
    /\ \E contents \in EnvFileContents, val \in EnvFileValues :
           args = [fn       |-> "writeEnvFile",
                   contents |-> contents,
                   updates  |-> <<[key |-> "K", value |-> val]>>]
    /\ result = [done |-> FALSE]
    /\ TagIdle
    /\ ScrubIdle
    /\ StdinIdle
    /\ UiIdle
    /\ AppIdle
    /\ WinIdle
    /\ PollIdle
    /\ ViewIdle
    /\ ExitIdle
    /\ RespIdle
    /\ ExtIdle

\* envFile = readEnvFile(envPath); writeEnvFile(envPath, envFile.lines,
\* updates)
WriteEnvFile ==
    /\ ~result.done
    /\ \E envFile \in {readEnvFile(args.contents)} :
           result' = [done |-> TRUE, read |-> FALSE,
                      contents |-> writeEnvFile(envFile.lines, args.updates)]
    /\ UNCHANGED <<args, tagVars, scrubVars, stdinVars, uiVars, appVars,
                   winVars, respVars, extVars, pollVars, viewVars, exitVars>>

\* readEnvFile(envPath) of the file just written
ReadEnvFile ==
    /\ result.done
    /\ ~result.read
    /\ result' = [done |-> TRUE, read |-> TRUE, contents |-> result.contents,
                  values |-> readEnvFile(result.contents).values]
    /\ UNCHANGED <<args, tagVars, scrubVars, stdinVars, uiVars, appVars,
                   winVars, respVars, extVars, pollVars, viewVars, exitVars>>

EnvFileNext == WriteEnvFile \/ ReadEnvFile

SpecEnvFile == EnvFileInit /\ [][EnvFileNext]_vars

\* C34: after writeEnvFile(path, existingLines, updates) and then
\* readEnvFile(path), values[k] = updates[k] for every key k of updates,
\* whatever the file held (the key on several lines included) and whatever
\* the value (backslashes, quotes, #, spaces and newlines included).
C34_WriteReadRoundTrip ==
    (result.done /\ result.read) =>
        \A u \in DOMAIN args.updates :
            /\ args.updates[u].key \in DOMAIN result.values
            /\ result.values[args.updates[u].key] = args.updates[u].value

----------------------------------------------------------------------------
(* A write stream wrapped by wrapWriteStream of the runner: a text written *)
(* in successive writes, each filtered by filterLines.                     *)

\* the most pieces the text written is made of
MaxWritePieces == 3

\* shouldDropLine(line): /^(info|debug|trace)\b/i on line.trimStart()
shouldDropLine(line) ==
    \E trimmed \in {ToLowerCase(TrimStart(line))} :
        \E level \in {"info", "debug", "trace"} :
            /\ StartsWithAt(trimmed, level, 0)
            /\ CharAt(trimmed, Len(level)) \notin IdentChars

\* filterLines(text, pending): what it returns and what it leaves in
\* pending.value
filterLines(text, pending) ==
    LET combined == pending \o text
        lines    == Split(combined, "\n")
        hasTrailingNewline == EndsWith(combined, "\n")
        rest     == IF hasTrailingNewline THEN lines
                    ELSE SubSeq(lines, 1, Len(lines) - 1)
        kept     == SelectSeq(rest, LAMBDA line : ~shouldDropLine(line))
    IN  [pending |-> IF hasTrailingNewline THEN "" ELSE lines[Len(lines)],
         out     |-> IF Len(kept) = 0 THEN "" ELSE Join(kept, "\n") \o "\n"]

WritePieces == {"a", "\n", "info x", " Debug:", "tracer"}

WriteTexts == Concats(WritePieces, MaxWritePieces)

WriteInit ==
    /\ \E text \in WriteTexts :
           args = [fn |-> "wrapWriteStream", text |-> text]
    /\ result = [done |-> FALSE, written |-> 0, pending |-> "",
                 forwarded |-> ""]
    /\ TagIdle
    /\ ScrubIdle
    /\ StdinIdle
    /\ UiIdle
    /\ AppIdle
    /\ WinIdle
    /\ PollIdle
    /\ ViewIdle
    /\ ExitIdle
    /\ RespIdle
    /\ ExtIdle

\* stream.write(chunk) with the next n characters of the text: what
\* filterLines returns, when not empty, goes to the original write
Write ==
    /\ \E n \in 1..(Len(args.text) - result.written) :
       \E filtered \in
           {filterLines(SubSeq(args.text, result.written + 1,
                               result.written + n), result.pending)} :
           result' = [done      |-> result.written + n = Len(args.text),
                      written   |-> result.written + n,
                      pending   |-> filtered.pending,
                      forwarded |-> result.forwarded \o filtered.out]
    /\ UNCHANGED <<args, tagVars, scrubVars, stdinVars, uiVars, appVars,
                   winVars, respVars, extVars, pollVars, viewVars, exitVars>>

WriteNext == Write

SpecWrite == WriteInit /\ [][WriteNext]_vars

RECURSIVE KeptLines(_, _)
\* the lines from the k-th on that are not dropped, each followed by one
\* newline
KeptLines(lines, k) ==
    IF k > Len(lines) THEN ""
    ELSE (IF shouldDropLine(lines[k]) THEN "" ELSE lines[k] \o "\n")
         \o KeptLines(lines, k + 1)

\* the newline-terminated lines of s, and what follows the last newline
CompleteLines(s) ==
    LET parts == Split(s, "\n") IN SubSeq(parts, 1, Len(parts) - 1)
IncompleteLine(s) ==
    LET parts == Split(s, "\n") IN parts[Len(parts)]

\* C35: however the text is cut into writes, what has been forwarded is the
\* complete lines written so far, in order, without those that start with
\* info, debug or trace, each kept line followed by exactly one newline and
\* no blank line added; the incomplete last line is held in pending.
C35_ForwardsCompleteLines ==
    \E written \in {SubSeq(args.text, 1, result.written)} :
        /\ result.forwarded = KeptLines(CompleteLines(written), 1)
        /\ result.pending = IncompleteLine(written)

----------------------------------------------------------------------------
(* The log list of the sidebar under appendLog.                            *)

\* the most lines appended
MaxAppends == 202

\* the k-th line appended
LogLine(prefix, k) == prefix \o ToString(k)

LogInit ==
    /\ \E prefix \in {"User: ", "ERROR: "} :
           args = [fn |-> "appendLog", prefix |-> prefix]
    /\ result = [done |-> FALSE, calls |-> 0]
    /\ TagIdle
    /\ ScrubIdle
    /\ StdinIdle
    /\ UiIdle
    /\ AppIdle
    /\ WinIdle
    /\ PollIdle
    /\ ViewIdle
    /\ ExitIdle
    /\ RespIdle
    /\ ExtIdle

\* appendLog(line)
AppendLog ==
    /\ result.calls < MaxAppends
    /\ logs' = appendLog(logs, LogLine(args.prefix, result.calls + 1))
    /\ result' = [done |-> FALSE, calls |-> result.calls + 1]
    /\ UNCHANGED <<args, thoughtState, thinkingState, actionsState,
                   submission, isProcessing, tagVars, scrubVars, stdinVars,
                   uiVars, appVars, winVars, extVars, pollVars, viewVars,
                   exitVars>>

LogNext == AppendLog

SpecLog == LogInit /\ [][LogNext]_vars

\* C36: after any sequence of appendLog calls the log list holds at most
\* 200 entries, and they are the most recent min(n, 200) lines appended, in
\* the order they were appended.
C36_LogsKeepMostRecent ==
    /\ Len(logs) = Min(result.calls, 200)
    /\ \A k \in DOMAIN logs :
           logs[k] = LogLine(args.prefix, result.calls - Len(logs) + k)

\* 202 lines have been appended: the list holds lines 3 to 202
C36_Witness ==
    /\ result.calls = 202
    /\ Len(logs) = 200
    /\ logs[1] = LogLine(args.prefix, 3)
    /\ logs[200] = LogLine(args.prefix, 202)

----------------------------------------------------------------------------
(* Layout and focus of PolymarketTuiApp under Tab, Shift+Tab, the sidebar  *)
(* commands and resizes, with the two effects that keep them aligned.      *)

\* the terminal widths of this specification; wide is 110 and more
LayoutColumns == {100, 109, 110, 120}

\* what the user submits for the three sidebar commands
CommandValues == {"/account", " /markets", "/logs "}

SidebarViewOf(trimmed) ==
    CASE trimmed = "/account" -> "positions"
      [] trimmed = "/markets" -> "markets"
      [] trimmed = "/logs"    -> "logs"

LayoutInit ==
    /\ UiIdle
    /\ AppIdle
    /\ ViewIdle
    /\ ExitIdle
    /\ TagIdle
    /\ ScrubIdle
    /\ StdinIdle
    /\ WinIdle
    /\ PollIdle
    /\ RespIdle
    /\ ExtIdle
    /\ CallIdle

\* the user types a command into the empty input field
TypeCommand ==
    /\ Settled
    /\ input = ""
    /\ \E val \in CommandValues : input' = handleInputChange(input, val)
    /\ UNCHANGED <<focusPanel, scrollOffset, sidebarScrollOffset,
                   chatMaxScroll, sidebarMaxScroll, appVars, tagVars,
                   scrubVars, stdinVars, winVars, respVars, extVars,
                   callVars, pollVars, viewVars, exitVars>>

\* handleSubmit(input) when the field holds /account, /markets or /logs
SubmitCommand ==
    /\ Settled
    /\ \E c \in {stripInputArtifacts(input)} : \E trimmed \in {Trim(c)} :
           /\ trimmed \in {"/account", "/markets", "/logs"}
           /\ sidebarView' = SidebarViewOf(trimmed)
    /\ input' = ""
    /\ layout' = "split"
    /\ UNCHANGED <<focusPanel, scrollOffset, sidebarScrollOffset,
                   chatMaxScroll, sidebarMaxScroll, messages, terminalSize,
                   nextId, tagVars, scrubVars, stdinVars, winVars, respVars,
                   extVars, callVars, pollVars, exitVars>>

\* useInput: Shift+Tab
ShiftTab ==
    /\ Settled
    /\ layout' = IF layout \in {"split", "chat"} THEN "chat"
                 ELSE IF IsWide(terminalSize.columns) THEN "split"
                 ELSE "chat"
    /\ focusPanel' = "chat"
    /\ stdinBuffer' = Resubscribed(focusPanel' # focusPanel, stdinBuffer)
    /\ UNCHANGED <<stdinStream, stdinPos, deltaSum, input, scrollOffset,
                   sidebarScrollOffset, chatMaxScroll, sidebarMaxScroll,
                   messages, terminalSize, nextId, tagVars, scrubVars,
                   winVars, respVars, extVars, callVars, pollVars, viewVars,
                   exitVars>>

\* stdout "resize" with another number of columns
ResizeColumns ==
    /\ Settled
    /\ \E columns \in LayoutColumns \ {terminalSize.columns} :
           terminalSize' = [terminalSize EXCEPT !.columns = columns]
    /\ UNCHANGED <<uiVars, messages, layout, nextId, tagVars, scrubVars,
                   stdinVars, winVars, respVars, extVars, callVars, pollVars,
                   viewVars, exitVars>>

\* the effect on [layout]: keep focus aligned with single-panel layouts;
\* it runs after every render that changed the layout, and running it
\* again changes nothing
LayoutFocusEffect ==
    /\ layout \in {"chat", "sidebar"}
    /\ focusPanel' = FocusForLayout(layout, focusPanel)
    /\ stdinBuffer' = Resubscribed(focusPanel' # focusPanel, stdinBuffer)
    /\ UNCHANGED <<stdinStream, stdinPos, deltaSum, input, scrollOffset,
                   sidebarScrollOffset, chatMaxScroll, sidebarMaxScroll,
                   appVars, tagVars, scrubVars, winVars, respVars, extVars,
                   callVars, pollVars, viewVars, exitVars>>

\* the effect on [focusPanel, isWide, layout]: a split layout becomes the
\* layout of the focused panel when the terminal is not wide
NarrowLayoutEffect ==
    /\ ~IsWide(terminalSize.columns)
    /\ layout = "split"
    /\ layout' = LayoutForWidth(layout, focusPanel, terminalSize.columns)
    /\ UNCHANGED <<uiVars, messages, terminalSize, nextId, tagVars,
                   scrubVars, stdinVars, winVars, respVars, extVars,
                   callVars, pollVars, viewVars, exitVars>>

LayoutNext ==
    \/ TypeCommand
    \/ SubmitCommand
    \/ Tab
    \/ ShiftTab
    \/ ResizeColumns
    \/ LayoutFocusEffect
    \/ NarrowLayoutEffect

SpecLayout == LayoutInit /\ [][LayoutNext]_vars

\* C37: once the layout and focus effects have settled the focused panel is
\* a visible panel: layout chat implies focus chat, layout sidebar implies
\* focus sidebar, layout split occurs only on a wide terminal, and on a
\* narrow terminal exactly one of the two panels is shown.
C37_FocusedPanelVisible ==
    Settled =>
        /\ layout = "chat" => focusPanel = "chat"
        /\ layout = "sidebar" => focusPanel = "sidebar"
        /\ layout = "split" => IsWide(terminalSize.columns)
        /\ focusPanel = "chat" =>
               ShowChatPanel(layout, terminalSize.columns)
        /\ focusPanel = "sidebar" =>
               ShowSidebarPanel(layout, terminalSize.columns)
        /\ ~IsWide(terminalSize.columns) =>
               (ShowChatPanel(layout, terminalSize.columns)
                    # ShowSidebarPanel(layout, terminalSize.columns))

\* the sidebar has the focus of a split layout, the terminal was made
\* narrow and the effects have settled on the sidebar alone
C37_Witness ==
    /\ Settled
    /\ terminalSize.columns = 109
    /\ layout = "sidebar"
    /\ focusPanel = "sidebar"
    /\ sidebarView = "logs"
    /\ ~ShowChatPanel(layout, terminalSize.columns)
    /\ ShowSidebarPanel(layout, terminalSize.columns)

\* C38: after /account, /markets or /logs is submitted, once the effects
\* have settled the sidebar panel is visible and shows the view of the
\* command (positions, markets, logs), on a wide terminal and on a narrow
\* one.
C38_CommandShowsSidebar ==
    [][SubmitCommand =>
           /\ sidebarView' = SidebarViewOf(Trim(input))
           /\ ShowSidebarPanel(
                  LayoutForWidth(layout', focusPanel', terminalSize'.columns),
                  terminalSize'.columns)]_vars

----------------------------------------------------------------------------
(* Ctrl+C in PolymarketTuiApp: the branch of the useInput handler, the     *)
(* greeting effect, and the messages, input and scroll offset it clears.   *)

\* key.name of the key object of a Ctrl+C press: the handler reads the key
\* through the type InkKey, where name is optional
NoName == "undefined"
CtrlCKeyNames == {"c", NoName}

Greeting ==
    "Hello! I'm the Polymarket trading agent. I can scan markets, "
        \o "summarize positions, and place orders when enabled. "
        \o "Type /help for commands."

CtrlCInit ==
    /\ UiIdle
    /\ AppIdle
    /\ ViewIdle
    /\ ExitIdle
    /\ TagIdle
    /\ ScrubIdle
    /\ StdinIdle
    /\ WinIdle
    /\ PollIdle
    /\ RespIdle
    /\ ExtIdle
    /\ CallIdle

\* the greeting effect, on mount and whenever messages.length changes
GreetingEffect ==
    /\ ~exited
    /\ ~greetedRef
    /\ Len(messages) = 0
    /\ greetedRef' = TRUE
    /\ messages' = Append(messages,
                          [id        |-> "m" \o ToString(nextId),
                           role      |-> "assistant",
                           content   |-> Greeting,
                           timestamp |-> 605])
    /\ nextId' = nextId + 1
    /\ scrollOffset' = 0
    /\ ctrlCPresses' = 0
    /\ UNCHANGED <<input, focusPanel, sidebarScrollOffset, chatMaxScroll,
                   sidebarMaxScroll, terminalSize, layout, exited,
                   runtimeStopped, tagVars, scrubVars, stdinVars, winVars,
                   respVars, extVars, callVars, pollVars, viewVars>>

\* appendMessage(msg) of a later message, after the mount effects
AppendLater ==
    /\ ~exited
    /\ greetedRef
    /\ nextId < MaxMessages + 1
    /\ \E role \in {"user", "assistant"} :
           messages' = Append(messages,
                              [id        |-> "m" \o ToString(nextId),
                               role      |-> role,
                               content   |-> "ok",
                               timestamp |-> 605])
    /\ nextId' = nextId + 1
    /\ scrollOffset' = 0
    /\ ctrlCPresses' = 0
    /\ UNCHANGED <<input, focusPanel, sidebarScrollOffset, chatMaxScroll,
                   sidebarMaxScroll, terminalSize, layout, greetedRef, exited,
                   runtimeStopped, tagVars, scrubVars, stdinVars, winVars,
                   respVars, extVars, callVars, pollVars, viewVars>>

\* useInput on a Ctrl+C press: the key has ctrl set and input "c"; with
\* another name no branch of the handler matches the key
CtrlCKey ==
    /\ ~exited
    /\ greetedRef
    /\ ctrlCPresses' = Min(2, ctrlCPresses + 1)
    /\ \E name \in CtrlCKeyNames :
           IF name = "c"
           THEN IF Len(messages) > 0
                THEN /\ input' = ""
                     /\ scrollOffset' = 0
                     /\ messages' = <<>>
                     /\ UNCHANGED <<exited, runtimeStopped>>
                ELSE /\ runtimeStopped' = TRUE
                     /\ exited' = TRUE
                     /\ UNCHANGED <<input, scrollOffset, messages>>
           ELSE UNCHANGED <<input, scrollOffset, messages, exited,
                            runtimeStopped>>
    /\ UNCHANGED <<focusPanel, sidebarScrollOffset, chatMaxScroll,
                   sidebarMaxScroll, terminalSize, layout, nextId, greetedRef,
                   tagVars, scrubVars, stdinVars, winVars, respVars, extVars,
                   callVars, pollVars, viewVars>>

CtrlCNext ==
    \/ GreetingEffect
    \/ AppendLater
    \/ CtrlCKey
    \/ (~exited /\ greetedRef /\ HandleInputChange)
    \/ (~exited /\ greetedRef /\ ChatMaxScrollChange)
    \/ (~exited /\ greetedRef /\ ChatScrollKey)

SpecCtrlC == CtrlCInit /\ [][CtrlCNext]_vars

\* C39: Ctrl+C pressed while the message list is non-empty empties the
\* message list, the input field and the chat scroll offset and does not
\* exit or stop the runtime; pressed while the list is empty it stops the
\* runtime and exits; so two consecutive presses with no message appended
\* between them always exit.
C39_CtrlCTwoStage ==
    /\ [][CtrlCKey =>
              IF Len(messages) > 0
              THEN /\ messages' = <<>>
                   /\ input' = ""
                   /\ scrollOffset' = 0
                   /\ ~exited'
                   /\ ~runtimeStopped'
              ELSE exited' /\ runtimeStopped']_vars
    /\ [](ctrlCPresses >= 2 => exited)

====
